---- MODULE Spec2Model ----
(***************************************************************************)
(* The graph store of the poetry-annotation tool: projectReducer of        *)
(* src/src/contexts/ProjectContext.tsx, with the project state of          *)
(* src/src/types.ts.  Arrays are sequences, objects are records (functions *)
(* over field names, so an optional field is a field that may be absent),  *)
(* strings holding HTML are sequences of tokens.                           *)
(***************************************************************************)
EXTENDS Integers, Sequences, FiniteSets, TLC

VARIABLES project,      \* the store's state (useReducer)
          last,         \* the operation performed last
          thrown,       \* what the last operation threw, "none" if nothing
          storage,      \* localStorage[STORAGE_KEY]: <<>> or <<text>>
          lastSavedAt,  \* useState lastSavedAt
          wall,         \* the wall clock, in ms
          timer,        \* ms until the auto-save interval fires next
          unsavedSince, \* when the oldest change not yet in storage was made, -1 if none
          args,         \* the arguments of the geometry function under study
          result,       \* what it returned, [fn |-> "none"] before the call
          viewState,    \* useState viewState: the hovered, selected and linking note
          editor,       \* the document of the TipTap editor, a sequence of segments
          effects       \* the effects of PoemEditor the last render left to run

timeVars == <<wall, timer, unsavedSince>>

callVars == <<args, result>>

uiVars == <<viewState, editor, effects>>

NoCall == [fn |-> "none"]

vars == <<project, last, thrown, storage, lastSavedAt, wall, timer, unsavedSince,
          args, result, viewState, editor, effects>>

(***************************************************************************)
(* Bounds of the exploration.                                              *)
(***************************************************************************)
MaxTime == 1
TicksPerInterval == 3
MaxTicks == 6
MaxNotes == 3
MaxCoord == 3
MaxSide == 2
MaxConnections == 2
MaxLinks == 1

(***************************************************************************)
(* Constants of the program.                                               *)
(***************************************************************************)
AUTO_SAVE_INTERVAL == 30000

(***************************************************************************)
(* Array helpers (Array.prototype.includes / some / filter / map).         *)
(***************************************************************************)
includes(s, x) == \E i \in DOMAIN s : s[i] = x

without(s, x) == SelectSeq(s, LAMBDA e : e # x)

(* String.prototype.includes on token strings *)
strIncludes(s, pat) ==
    \E i \in 0..(Len(s) - Len(pat)) : SubSeq(s, i + 1, i + Len(pat)) = pat

(* object spread { ...a, ...b }: the fields of b override those of a *)
spread(a, b) == b @@ a

(***************************************************************************)
(* Identifiers.  The two special notes have fixed ids; every other id is   *)
(* a uuid or a generated string, drawn here from small pools.              *)
(***************************************************************************)
NoteContextId == "note-context"
NotePersonalId == "note-personal-response"

UserNoteIds == {"n1", "n2"}
NoteIds == {NoteContextId, NotePersonalId} \cup UserNoteIds
HighlightIds == {"h1"}
ConnectionIds == {"c1"}
SpecialTypes == {"context", "personal-response"}

(* note.type is optional: absent means undefined, which is falsy *)
hasType(note) == "type" \in DOMAIN note
typeOf(note) == IF hasType(note) THEN note.type ELSE "undefined"

(* note.isCollapsed is optional: absent means undefined, which is falsy *)
isCollapsed(note) == IF "isCollapsed" \in DOMAIN note THEN note.isCollapsed ELSE FALSE

(***************************************************************************)
(* HTML content as a string of tokens.  A highlight mark is rendered as a  *)
(* span whose data-highlight-id attribute holds the comma-joined ids.      *)
(***************************************************************************)
SpanOpen == "<span class=\"poet-highlight\" "
AttrOpen == "data-highlight-id=\""
Quote == "\""
Comma == ","
SpanRest == ">t</span>"
Word == "w"

RECURSIVE join(_)
join(ids) ==
    IF Len(ids) = 0 THEN <<>>
    ELSE IF Len(ids) = 1 THEN <<ids[1]>>
    ELSE <<ids[1], Comma>> \o join(Tail(ids))

(* PoetHighlight.renderHTML: one span carrying the mark's id attribute *)
renderHTML(ids) == <<SpanOpen, AttrOpen>> \o join(ids) \o <<Quote, SpanRest>>

(* editor.getHTML(): the segments of the document one after the other *)
RECURSIVE getHTML(_)
getHTML(doc) ==
    IF Len(doc) = 0 THEN <<>>
    ELSE (IF doc[1].mark THEN renderHTML(doc[1].ids) ELSE doc[1].text)
         \o getHTML(Tail(doc))

(***************************************************************************)
(* createEmptyProject: the state after construction.                       *)
(***************************************************************************)
specialNote(id, ty, x, y, now) ==
    [id |-> id, content |-> "", position |-> [x |-> x, y |-> y],
     textReferences |-> <<>>, linkedNotes |-> <<>>,
     createdAt |-> now, lastModified |-> now,
     type |-> ty, isCollapsed |-> TRUE]

createEmptyProject(now) ==
    [projectId |-> "p1", version |-> "1.0", title |-> "Untitled Project",
     createdAt |-> now, lastModified |-> now,
     poem |-> [content |-> <<>>, highlights |-> <<>>],
     notes |-> << specialNote(NoteContextId, "context", 50, 50, now),
                  specialNote(NotePersonalId, "personal-response", 50, 150, now) >>,
     connections |-> <<>>]

(***************************************************************************)
(* projectReducer, one operator per case of the switch.                    *)
(***************************************************************************)

(* the anchor test of the reconciliation: four substring searches *)
anchorTest(newContent, hid) ==
    \/ strIncludes(newContent, <<AttrOpen, hid, Quote>>)
    \/ strIncludes(newContent, <<AttrOpen, hid, Comma>>)
    \/ strIncludes(newContent, <<Comma, hid, Quote>>)
    \/ strIncludes(newContent, <<Comma, hid, Comma>>)

hasHighlights(note, updatedHighlights) ==
    \E i \in DOMAIN updatedHighlights :
        includes(note.textReferences, updatedHighlights[i].id)

hasConnections(note, state) ==
    \E i \in DOMAIN state.connections :
        \/ state.connections[i].fromNoteId = note.id
        \/ state.connections[i].toNoteId = note.id

(* variant: only the note's own out-edges count as a tie *)
hasLinkedNotes_ownOnly(note, state) == Len(note.linkedNotes) > 0

hasLinkedNotes(note, state) ==
    \/ Len(note.linkedNotes) > 0
    \/ \E i \in DOMAIN state.notes : includes(state.notes[i].linkedNotes, note.id)

(* variant: special notes are pruned like any other note *)
UPDATE_POEM_CONTENT_pruneTyped(state, newContent, now) ==
    LET updatedHighlights ==
            SelectSeq(state.poem.highlights, LAMBDA h : anchorTest(newContent, h.id))
        updatedNotes ==
            SelectSeq(state.notes, LAMBDA note :
                \/ hasHighlights(note, updatedHighlights)
                \/ hasConnections(note, state)
                \/ hasLinkedNotes(note, state))
    IN  [state EXCEPT !.poem = [content |-> newContent, highlights |-> updatedHighlights],
                      !.notes = updatedNotes,
                      !.lastModified = now]

(* variant: a note's anchors are looked up among the highlights held
   before the reconciliation *)
UPDATE_POEM_CONTENT_staleAnchors(state, newContent, now) ==
    LET updatedHighlights ==
            SelectSeq(state.poem.highlights, LAMBDA h : anchorTest(newContent, h.id))
        updatedNotes ==
            SelectSeq(state.notes, LAMBDA note :
                \/ hasType(note)
                \/ hasHighlights(note, state.poem.highlights)
                \/ hasConnections(note, state)
                \/ hasLinkedNotes(note, state))
    IN  [state EXCEPT !.poem = [content |-> newContent, highlights |-> updatedHighlights],
                      !.notes = updatedNotes,
                      !.lastModified = now]

UPDATE_POEM_CONTENT(state, newContent, now) ==
    LET updatedHighlights ==
            SelectSeq(state.poem.highlights, LAMBDA h : anchorTest(newContent, h.id))
        updatedNotes ==
            SelectSeq(state.notes, LAMBDA note :
                \/ hasType(note)
                \/ hasHighlights(note, updatedHighlights)
                \/ hasConnections(note, state)
                \/ hasLinkedNotes(note, state))
    IN  [state EXCEPT !.poem = [content |-> newContent, highlights |-> updatedHighlights],
                      !.notes = updatedNotes,
                      !.lastModified = now]

(* variant: the installed project is stamped like every other transition *)
SET_PROJECT_stamped(state, payload, now) ==
    [payload EXCEPT !.lastModified = now]

SET_PROJECT(state, payload, now) == payload

UPDATE_TITLE(state, title, now) ==
    [state EXCEPT !.title = title, !.lastModified = now]

ADD_HIGHLIGHT(state, highlight, now) ==
    [state EXCEPT !.poem.highlights = Append(@, highlight), !.lastModified = now]

REMOVE_HIGHLIGHT(state, hid, now) ==
    [state EXCEPT !.poem.highlights = SelectSeq(@, LAMBDA h : h.id # hid),
                  !.lastModified = now]

(* variant: the project's timestamp is left as it was *)
ADD_NOTE_noStamp(state, note, now) ==
    [state EXCEPT !.notes = Append(@, note)]

ADD_NOTE(state, note, now) ==
    [state EXCEPT !.notes = Append(@, note), !.lastModified = now]

(* variant: an id that is not found is inserted *)
UPDATE_NOTE_upsert(state, payload, now) ==
    IF \E i \in DOMAIN state.notes : state.notes[i].id = payload.id
    THEN [state EXCEPT
            !.notes = [i \in DOMAIN @ |->
                         IF @[i].id = payload.id
                         THEN spread(spread(@[i], payload), [lastModified |-> now])
                         ELSE @[i]],
            !.lastModified = now]
    ELSE [state EXCEPT
            !.notes = Append(@, spread(payload, [lastModified |-> now])),
            !.lastModified = now]

UPDATE_NOTE(state, payload, now) ==
    [state EXCEPT
        !.notes = [i \in DOMAIN @ |->
                     IF @[i].id = payload.id
                     THEN spread(spread(@[i], payload), [lastModified |-> now])
                     ELSE @[i]],
        !.lastModified = now]

UPDATE_NOTE_POSITION_stamped(state, payload, now) ==
    [state EXCEPT
        !.notes = [i \in DOMAIN @ |->
                     IF @[i].id = payload.id
                     THEN spread(@[i], [position |-> payload.position, lastModified |-> now])
                     ELSE @[i]],
        !.lastModified = now]

UPDATE_NOTE_POSITION(state, payload, now) ==
    [state EXCEPT
        !.notes = [i \in DOMAIN @ |->
                     IF @[i].id = payload.id
                     THEN spread(@[i], [position |-> payload.position])
                     ELSE @[i]],
        !.lastModified = now]

(* state.notes.find(n => n.id === noteId)?.type is truthy *)
findIsTyped(notes, noteId) ==
    \E i \in DOMAIN notes :
        /\ notes[i].id = noteId
        /\ \A j \in 1..(i - 1) : notes[j].id # noteId
        /\ hasType(notes[i])

(* variant: the deleted id stays in the other notes' linkedNotes *)
DELETE_NOTE_keepLinks(state, noteId, now) ==
    IF findIsTyped(state.notes, noteId) THEN state
    ELSE
    LET stripped == [i \in DOMAIN state.poem.highlights |->
                        [state.poem.highlights[i] EXCEPT !.noteIds = without(@, noteId)]]
        updatedHighlights == SelectSeq(stripped, LAMBDA h : Len(h.noteIds) > 0)
        updatedConnections ==
            SelectSeq(state.connections,
                      LAMBDA c : c.fromNoteId # noteId /\ c.toNoteId # noteId)
    IN  [state EXCEPT !.notes = SelectSeq(@, LAMBDA n : n.id # noteId),
                      !.poem.highlights = updatedHighlights,
                      !.connections = updatedConnections,
                      !.lastModified = now]

(* variant: highlights left without notes are kept *)
DELETE_NOTE_keepOrphans(state, noteId, now) ==
    IF findIsTyped(state.notes, noteId) THEN state
    ELSE
    LET stripped == [i \in DOMAIN state.poem.highlights |->
                        [state.poem.highlights[i] EXCEPT !.noteIds = without(@, noteId)]]
        updatedConnections ==
            SelectSeq(state.connections,
                      LAMBDA c : c.fromNoteId # noteId /\ c.toNoteId # noteId)
        remaining == SelectSeq(state.notes, LAMBDA n : n.id # noteId)
        updatedNotes == [i \in DOMAIN remaining |->
                            spread(remaining[i],
                                   [linkedNotes |-> without(remaining[i].linkedNotes, noteId)])]
    IN  [state EXCEPT !.notes = updatedNotes,
                      !.poem.highlights = stripped,
                      !.connections = updatedConnections,
                      !.lastModified = now]

(* variant: no guard for the special notes *)
DELETE_NOTE_unguarded(state, noteId, now) ==
    LET stripped == [i \in DOMAIN state.poem.highlights |->
                        [state.poem.highlights[i] EXCEPT !.noteIds = without(@, noteId)]]
        updatedHighlights == SelectSeq(stripped, LAMBDA h : Len(h.noteIds) > 0)
        updatedConnections ==
            SelectSeq(state.connections,
                      LAMBDA c : c.fromNoteId # noteId /\ c.toNoteId # noteId)
        remaining == SelectSeq(state.notes, LAMBDA n : n.id # noteId)
        updatedNotes == [i \in DOMAIN remaining |->
                            spread(remaining[i],
                                   [linkedNotes |-> without(remaining[i].linkedNotes, noteId)])]
    IN  [state EXCEPT !.notes = updatedNotes,
                      !.poem.highlights = updatedHighlights,
                      !.connections = updatedConnections,
                      !.lastModified = now]

DELETE_NOTE(state, noteId, now) ==
    IF findIsTyped(state.notes, noteId) THEN state
    ELSE
    LET stripped == [i \in DOMAIN state.poem.highlights |->
                        [state.poem.highlights[i] EXCEPT !.noteIds = without(@, noteId)]]
        updatedHighlights == SelectSeq(stripped, LAMBDA h : Len(h.noteIds) > 0)
        updatedConnections ==
            SelectSeq(state.connections,
                      LAMBDA c : c.fromNoteId # noteId /\ c.toNoteId # noteId)
        remaining == SelectSeq(state.notes, LAMBDA n : n.id # noteId)
        updatedNotes == [i \in DOMAIN remaining |->
                            spread(remaining[i],
                                   [linkedNotes |-> without(remaining[i].linkedNotes, noteId)])]
    IN  [state EXCEPT !.notes = updatedNotes,
                      !.poem.highlights = updatedHighlights,
                      !.connections = updatedConnections,
                      !.lastModified = now]

(* variant: the target is appended without looking for it first *)
LINK_NOTES_alwaysAppend(state, payload, now) ==
    [state EXCEPT
        !.notes = [i \in DOMAIN @ |->
                     IF @[i].id = payload.fromId
                     THEN spread(@[i], [linkedNotes |-> Append(@[i].linkedNotes, payload.toId)])
                     ELSE @[i]],
        !.lastModified = now]

LINK_NOTES(state, payload, now) ==
    [state EXCEPT
        !.notes = [i \in DOMAIN @ |->
                     IF @[i].id = payload.fromId /\ ~includes(@[i].linkedNotes, payload.toId)
                     THEN spread(@[i], [linkedNotes |-> Append(@[i].linkedNotes, payload.toId)])
                     ELSE @[i]],
        !.lastModified = now]

(* variant: connections of the pair are removed in both directions *)
UNLINK_NOTES_bothDirections(state, payload, now) ==
    [state EXCEPT
        !.notes = [i \in DOMAIN @ |->
                     IF @[i].id = payload.fromId
                     THEN spread(@[i], [linkedNotes |-> without(@[i].linkedNotes, payload.toId)])
                     ELSE @[i]],
        !.connections = SelectSeq(@, LAMBDA c :
                            /\ ~(c.fromNoteId = payload.fromId /\ c.toNoteId = payload.toId)
                            /\ ~(c.fromNoteId = payload.toId /\ c.toNoteId = payload.fromId)),
        !.lastModified = now]

UNLINK_NOTES(state, payload, now) ==
    [state EXCEPT
        !.notes = [i \in DOMAIN @ |->
                     IF @[i].id = payload.fromId
                     THEN spread(@[i], [linkedNotes |-> without(@[i].linkedNotes, payload.toId)])
                     ELSE @[i]],
        !.connections = SelectSeq(@, LAMBDA c :
                            ~(c.fromNoteId = payload.fromId /\ c.toNoteId = payload.toId)),
        !.lastModified = now]

(* variant: a pair that is already connected is not connected again *)
ADD_CONNECTION_dedup(state, connection, now) ==
    IF \E i \in DOMAIN state.connections :
          /\ state.connections[i].fromNoteId = connection.fromNoteId
          /\ state.connections[i].toNoteId = connection.toNoteId
    THEN [state EXCEPT !.lastModified = now]
    ELSE [state EXCEPT !.connections = Append(@, connection), !.lastModified = now]

ADD_CONNECTION(state, connection, now) ==
    [state EXCEPT !.connections = Append(@, connection), !.lastModified = now]

REMOVE_CONNECTION(state, cid, now) ==
    [state EXCEPT !.connections = SelectSeq(@, LAMBDA c : c.id # cid),
                  !.lastModified = now]

TOGGLE_NOTE_COLLAPSE(state, noteId, now) ==
    [state EXCEPT
        !.notes = [i \in DOMAIN @ |->
                     IF @[i].id = noteId
                     THEN spread(@[i], [isCollapsed |-> ~isCollapsed(@[i]),
                                        lastModified |-> now])
                     ELSE @[i]],
        !.lastModified = now]

projectReducer(state, action, now) ==
    CASE action.type = "SET_PROJECT" -> SET_PROJECT(state, action.payload, now)
      [] action.type = "UPDATE_TITLE" -> UPDATE_TITLE(state, action.payload, now)
      [] action.type = "UPDATE_POEM_CONTENT" -> UPDATE_POEM_CONTENT(state, action.payload, now)
      [] action.type = "ADD_HIGHLIGHT" -> ADD_HIGHLIGHT(state, action.payload, now)
      [] action.type = "REMOVE_HIGHLIGHT" -> REMOVE_HIGHLIGHT(state, action.payload, now)
      [] action.type = "ADD_NOTE" -> ADD_NOTE(state, action.payload, now)
      [] action.type = "UPDATE_NOTE" -> UPDATE_NOTE(state, action.payload, now)
      [] action.type = "UPDATE_NOTE_POSITION" -> UPDATE_NOTE_POSITION(state, action.payload, now)
      [] action.type = "DELETE_NOTE" -> DELETE_NOTE(state, action.payload, now)
      [] action.type = "LINK_NOTES" -> LINK_NOTES(state, action.payload, now)
      [] action.type = "UNLINK_NOTES" -> UNLINK_NOTES(state, action.payload, now)
      [] action.type = "ADD_CONNECTION" -> ADD_CONNECTION(state, action.payload, now)
      [] action.type = "REMOVE_CONNECTION" -> REMOVE_CONNECTION(state, action.payload, now)
      [] action.type = "TOGGLE_NOTE_COLLAPSE" -> TOGGLE_NOTE_COLLAPSE(state, action.payload, now)
      [] OTHER -> state

(***************************************************************************)
(* Payloads the dispatchers are given.                                     *)
(***************************************************************************)
highlight(id, noteIds) ==
    [id |-> id, lineIndex |-> 0, startOffset |-> 0, endOffset |-> 1,
     text |-> "t", noteIds |-> noteIds]

untypedNote(id, refs, now) ==
    [id |-> id, content |-> "", position |-> [x |-> 20, y |-> 50],
     textReferences |-> refs, linkedNotes |-> <<>>,
     createdAt |-> now, lastModified |-> now]

typedNote(id, ty, now) == spread(untypedNote(id, <<>>, now), [type |-> ty])

connection(id, from, to) ==
    [id |-> id, fromNoteId |-> from, toNoteId |-> to, type |-> "note-to-note"]

(* documents of the editor: marked spans and plain text *)
mark(ids) == [mark |-> TRUE, ids |-> ids]
plain(text) == [mark |-> FALSE, text |-> text]

HighlightPayloads == {highlight("h1", <<"n1">>)}

NotePayloads ==
    { untypedNote("n1", <<>>, 0), untypedNote("n1", <<"h1">>, 0),
      untypedNote("n2", <<>>, 0), typedNote("n2", "context", 0) }

ConnectionPayloads == {connection("c1", "n1", "n2")}

LinkPayloads == {[fromId |-> "n1", toId |-> "n2"], [fromId |-> "n2", toId |-> "n1"]}

UpdatePayloads == {[id |-> NoteContextId, isCollapsed |-> FALSE]}

PositionPayloads == {[id |-> NoteContextId, position |-> [x |-> 0, y |-> 0]]}

ToggleIds == {NoteContextId}

Titles == {"Sonnet"}

Documents == { <<>>, <<mark(<<"h1">>)>> }

Contents == {getHTML(d) : d \in Documents}

(***************************************************************************)
(* The store: one action per dispatcher.  The clock is read at every       *)
(* transition and never runs backwards.                                    *)
(***************************************************************************)
hasField(obj, key) == key \in DOMAIN obj

(* the reducer throws a TypeError where it calls an array method on, or
   spreads, a field the state does not have *)
raises(state, action) ==
    \/ /\ ~hasField(state.poem, "highlights")
       /\ \/ action.type \in {"UPDATE_POEM_CONTENT", "ADD_HIGHLIGHT", "REMOVE_HIGHLIGHT"}
          \/ action.type = "DELETE_NOTE" /\ ~findIsTyped(state.notes, action.payload)
    \/ /\ ~hasField(state, "connections")
       /\ \/ action.type \in {"UNLINK_NOTES", "ADD_CONNECTION", "REMOVE_CONNECTION"}
          \/ action.type = "DELETE_NOTE" /\ ~findIsTyped(state.notes, action.payload)
          \/ /\ action.type = "UPDATE_POEM_CONTENT"
             /\ \E i \in DOMAIN state.notes : ~hasType(state.notes[i])

(* useState<ViewState>(initialViewState); null is the string "null" *)
Null == "null"

initialViewState ==
    [hoveredNoteId |-> Null, selectedNoteId |-> Null, linkingFromNoteId |-> Null]

Uncaught == "Uncaught TypeError"

Init ==
    /\ project = createEmptyProject(0)
    /\ last = [type |-> "INIT"]
    /\ thrown = "none"
    /\ storage = <<>>
    /\ lastSavedAt = project.lastModified
    /\ wall = 0
    /\ timer = AUTO_SAVE_INTERVAL
    /\ unsavedSince = -1
    /\ args = NoCall
    /\ result = NoCall
    /\ viewState = initialViewState
    /\ editor = <<>>
    /\ effects = {}

Clock == project.lastModified..MaxTime

(* a transition of the store; an exception of the reducer escapes the
   render and takes the application down *)
reduce(action, now) ==
    /\ thrown # Uncaught
    /\ last' = action
    /\ IF raises(project, action)
       THEN project' = project /\ thrown' = Uncaught
       ELSE project' = projectReducer(project, action, now) /\ thrown' = "none"

dispatch(action, now) ==
    /\ reduce(action, now)
    /\ UNCHANGED <<storage, lastSavedAt>>
    /\ UNCHANGED timeVars
    /\ UNCHANGED callVars
    /\ UNCHANGED uiVars

updateTitle(t) ==
    \E now \in Clock : dispatch([type |-> "UPDATE_TITLE", payload |-> t], now)

setDocumentContent(c) ==
    \E now \in Clock : dispatch([type |-> "UPDATE_POEM_CONTENT", payload |-> c], now)

addHighlight(h) ==
    \E now \in Clock : dispatch([type |-> "ADD_HIGHLIGHT", payload |-> h], now)

removeHighlight(id) ==
    \E now \in Clock : dispatch([type |-> "REMOVE_HIGHLIGHT", payload |-> id], now)

(* the caller stamps the new note with the time of the call *)
addNote(n) ==
    \E now \in Clock :
        dispatch([type |-> "ADD_NOTE",
                  payload |-> spread(n, [createdAt |-> now, lastModified |-> now])], now)

updateNote(p) ==
    \E now \in Clock : dispatch([type |-> "UPDATE_NOTE", payload |-> p], now)

updateNotePosition(p) ==
    \E now \in Clock : dispatch([type |-> "UPDATE_NOTE_POSITION", payload |-> p], now)

deleteNote(id) ==
    \E now \in Clock : dispatch([type |-> "DELETE_NOTE", payload |-> id], now)

linkNotes(p) ==
    \E now \in Clock : dispatch([type |-> "LINK_NOTES", payload |-> p], now)

unlinkNotes(p) ==
    \E now \in Clock : dispatch([type |-> "UNLINK_NOTES", payload |-> p], now)

addConnection(c) ==
    \E now \in Clock : dispatch([type |-> "ADD_CONNECTION", payload |-> c], now)

removeConnection(id) ==
    \E now \in Clock : dispatch([type |-> "REMOVE_CONNECTION", payload |-> id], now)

toggleCollapse(id) ==
    \E now \in Clock : dispatch([type |-> "TOGGLE_NOTE_COLLAPSE", payload |-> id], now)

(* ids in use: the callers draw fresh ids (uuidv4, generateHighlightId) *)
noteIds(state) == {state.notes[i].id : i \in DOMAIN state.notes}
highlightIds(state) == {state.poem.highlights[i].id : i \in DOMAIN state.poem.highlights}
connectionIds(state) == {state.connections[i].id : i \in DOMAIN state.connections}

Next ==
    \/ \E t \in Titles : updateTitle(t)
    \/ \E c \in Contents : setDocumentContent(c)
    \/ \E h \in HighlightPayloads :
          /\ h.id \notin highlightIds(project)
          /\ addHighlight(h)
    \/ \E h \in HighlightIds : removeHighlight(h)
    \/ \E n \in NotePayloads :
          /\ n.id \notin noteIds(project)
          /\ addNote(n)
    \/ \E p \in UpdatePayloads : updateNote(p)
    \/ \E p \in PositionPayloads : updateNotePosition(p)
    \/ \E id \in NoteIds : deleteNote(id)
    \/ \E p \in LinkPayloads : linkNotes(p)
    \/ \E p \in LinkPayloads : unlinkNotes(p)
    \/ \E c \in ConnectionPayloads :
          /\ c.id \notin connectionIds(project)
          /\ addConnection(c)
    \/ \E c \in ConnectionIds : removeConnection(c)
    \/ \E id \in ToggleIds : toggleCollapse(id)

Spec == Init /\ [][Next]_vars

(***************************************************************************)
(* One transition of the reducer from each of a family of prior states.    *)
(* The priors hold the two special notes, up to two user notes with their  *)
(* references and links, up to two highlights and up to two connections;   *)
(* the store reaches them through addNote, addHighlight, linkNotes and     *)
(* addConnection.                                                          *)
(***************************************************************************)
StepHighlightIds == {"h1", "h2"}
StepConnectionIds == {"c1", "c2"}

priorNote(id, refs, links) == spread(untypedNote(id, refs, 0), [linkedNotes |-> links])

PriorUserNotes ==
    {<<>>}
    \cup {<<spread(priorNote("n1", r, <<>>), [type |-> "default"])>> : r \in {<<>>, <<"h1">>}}
    \cup {<<priorNote("n1", r, l)>> : r \in {<<>>, <<"h1">>}, l \in {<<>>, <<"n2">>}}
    \cup {<<priorNote("n1", r1, l1), priorNote("n2", r2, l2)>> :
            r1 \in {<<>>, <<"h1">>}, l1 \in {<<>>, <<"n2">>},
            r2 \in {<<>>, <<"h2">>}, l2 \in {<<>>, <<"n1">>}}

PriorHighlights ==
    {<<>>}
    \cup {<<highlight("h1", ns)>> : ns \in {<<>>, <<"n1">>, <<"n1", "n2">>}}
    \cup {<<highlight("h1", ns), highlight("h2", <<"n2">>)>> :
            ns \in {<<>>, <<"n1">>, <<"n1", "n2">>}}

PriorConnections ==
    { <<>>,
      <<connection("c1", "n1", "n2")>>,
      <<connection("c1", "n2", "n1"), connection("c2", "n2", "n1")>> }

PriorStates ==
    {[createEmptyProject(0) EXCEPT
        !.notes = @ \o ns, !.poem.highlights = hs, !.connections = cs] :
        ns \in PriorUserNotes, hs \in PriorHighlights, cs \in PriorConnections}

StepDocuments ==
    { <<>>,
      <<plain(<<Word>>)>>,
      <<mark(<<"h1">>)>>,
      <<mark(<<"h2">>)>>,
      <<mark(<<"h1", "h2">>)>>,
      <<mark(<<"h3", "h1", "h2">>)>>,
      <<mark(<<"h1">>), plain(<<Word>>), mark(<<"h2">>)>>,
      <<plain(<<Word, Comma, "h1", Comma, Word>>)>>,
      <<mark(<<"h2">>), plain(<<Comma, "h1", Quote>>)>> }

StepContents == {getHTML(d) : d \in StepDocuments}

StepHighlightPayloads == {highlight(h, <<"n1">>) : h \in StepHighlightIds}

StepConnectionPayloads ==
    {connection(c, "n1", "n2") : c \in StepConnectionIds}
    \cup {connection(c, "n2", NotePersonalId) : c \in StepConnectionIds}

StepLinkPayloads == {[fromId |-> f, toId |-> t] : f \in NoteIds, t \in NoteIds}

StepUpdatePayloads ==
    {[id |-> id, content |-> "a"] : id \in NoteIds}
    \cup {[id |-> id, isCollapsed |-> FALSE] : id \in NoteIds}
    \cup {[id |-> id, width |-> 300] : id \in NoteIds}

StepPositionPayloads ==
    {[id |-> id, position |-> [x |-> 0, y |-> 0]] : id \in NoteIds}

StepInit ==
    /\ project \in PriorStates
    /\ last = [type |-> "INIT"]
    /\ thrown = "none"
    /\ storage = <<>>
    /\ lastSavedAt = project.lastModified
    /\ wall = 0
    /\ timer = AUTO_SAVE_INTERVAL
    /\ unsavedSince = -1
    /\ args = NoCall
    /\ result = NoCall
    /\ viewState = initialViewState
    /\ editor = <<>>
    /\ effects = {}

fresh == last.type = "INIT"

StepNext ==
    \/ fresh /\ \E t \in Titles : updateTitle(t)
    \/ fresh /\ \E c \in StepContents : setDocumentContent(c)
    \/ fresh /\ \E h \in StepHighlightPayloads :
                  /\ h.id \notin highlightIds(project)
                  /\ addHighlight(h)
    \/ fresh /\ \E h \in StepHighlightIds : removeHighlight(h)
    \/ fresh /\ \E n \in NotePayloads :
                  /\ n.id \notin noteIds(project)
                  /\ addNote(n)
    \/ fresh /\ \E p \in StepUpdatePayloads : updateNote(p)
    \/ fresh /\ \E p \in StepPositionPayloads : updateNotePosition(p)
    \/ fresh /\ \E id \in NoteIds : deleteNote(id)
    \/ fresh /\ \E p \in StepLinkPayloads : linkNotes(p)
    \/ fresh /\ \E p \in StepLinkPayloads : unlinkNotes(p)
    \/ fresh /\ \E c \in StepConnectionPayloads :
                  /\ c.id \notin connectionIds(project)
                  /\ addConnection(c)
    \/ fresh /\ \E c \in StepConnectionIds : removeConnection(c)
    \/ fresh /\ \E id \in NoteIds : toggleCollapse(id)

StepSpec == StepInit /\ [][StepNext]_vars

(***************************************************************************)
(* Persistence: JSON text, local storage, import and export.  A JSON text  *)
(* is an object (its members in order, each a key and an encoded value),   *)
(* the literal null, or something JSON.parse rejects.                      *)
(***************************************************************************)
KeyOrder ==
    << "projectId", "version", "title", "createdAt", "lastModified", "poem",
       "content", "highlights", "notes", "connections", "id", "lineIndex",
       "startOffset", "endOffset", "text", "noteIds", "position", "x", "y",
       "textReferences", "linkedNotes", "type", "isCollapsed", "width",
       "fromNoteId", "toNoteId" >>

ObjectKeys == {"poem", "position"}
ObjectArrayKeys == {"highlights", "notes", "connections"}

RECURSIVE stringifyObject(_), stringifyValue(_, _)
stringifyValue(key, v) ==
    IF key \in ObjectKeys THEN stringifyObject(v)
    ELSE IF key \in ObjectArrayKeys THEN [i \in DOMAIN v |-> stringifyObject(v[i])]
    ELSE v

stringifyObject(obj) ==
    LET keys == SelectSeq(KeyOrder, LAMBDA k : k \in DOMAIN obj)
    IN  [i \in DOMAIN keys |-> <<keys[i], stringifyValue(keys[i], obj[keys[i]])>>]

JSONstringify(v) == [kind |-> "object", members |-> stringifyObject(v)]

RECURSIVE parseObject(_), parseValue(_, _)
parseValue(key, v) ==
    IF key \in ObjectKeys THEN parseObject(v)
    ELSE IF key \in ObjectArrayKeys THEN [i \in DOMAIN v |-> parseObject(v[i])]
    ELSE v

(* a member given twice takes its last value *)
parseObject(members) ==
    [k \in {members[i][1] : i \in DOMAIN members} |->
        LET i == CHOOSE i \in DOMAIN members :
                    /\ members[i][1] = k
                    /\ \A j \in DOMAIN members : j > i => members[j][1] # k
        IN  parseValue(k, members[i][2])]

JSONparse(text) == parseObject(text.members)

omit(obj, key) == [k \in DOMAIN obj \ {key} |-> obj[k]]

hasUnsavedChanges == project.lastModified # lastSavedAt

(* variant: the validation does not ask for poem *)
basicValidation_noPoem(projectData) ==
    /\ hasField(projectData, "projectId") /\ projectData.projectId # ""
    /\ hasField(projectData, "notes")

(* !projectData.projectId || !projectData.poem || !projectData.notes *)
basicValidation(projectData) ==
    /\ hasField(projectData, "projectId") /\ projectData.projectId # ""
    /\ hasField(projectData, "poem")
    /\ hasField(projectData, "notes")

(* the import's "Ensure special notes": by id, appended when missing *)
ensureSpecialOnImport(projectData, now) ==
    LET hasContext == \E i \in DOMAIN projectData.notes :
                         projectData.notes[i].id = NoteContextId
        hasPersonal == \E i \in DOMAIN projectData.notes :
                          projectData.notes[i].id = NotePersonalId
        withContext == IF hasContext THEN projectData.notes
                       ELSE Append(projectData.notes,
                                   specialNote(NoteContextId, "context", 50, 50, now))
        updatedNotes == IF hasPersonal THEN withContext
                        ELSE Append(withContext,
                                    specialNote(NotePersonalId, "personal-response",
                                                50, 150, now))
    IN  spread(projectData, [notes |-> updatedNotes])

(* project files offered to the import *)
baseFile ==
    [createEmptyProject(1) EXCEPT
        !.title = "Imported",
        !.poem = [content |-> getHTML(<<mark(<<"h1">>)>>),
                  highlights |-> <<highlight("h1", <<"n2">>)>>],
        !.notes = Append(@, spread(untypedNote("n2", <<"h1">>, 1),
                                   [linkedNotes |-> <<NoteContextId>>, width |-> 300])),
        !.connections = <<connection("c1", "n2", NoteContextId)>>]

ImportPayloads ==
    { baseFile,
      omit(baseFile, "projectId"),
      [baseFile EXCEPT !.projectId = ""],
      omit(baseFile, "poem"),
      omit(baseFile, "notes"),
      omit(baseFile, "connections"),
      [baseFile EXCEPT !.poem = omit(@, "highlights")],
      [baseFile EXCEPT !.notes = <<untypedNote("n2", <<"h1">>, 1)>>] }

ImportFiles ==
    {[kind |-> "garbage"], [kind |-> "null"]}
    \cup {JSONstringify(p) : p \in ImportPayloads}

(* exportProject: the text of the downloaded file *)
exportProject(state) == JSONstringify(state)

(* importProject.  It is called from the landing page, where nothing that
   changes the store is mounted, so the store it finds after the await is
   the store of the call; the saveToLocalStorage it holds is the one of the
   render it was called in, which writes that render's project. *)
importProject(file) ==
    /\ thrown # Uncaught
    /\ UNCHANGED timeVars
    /\ UNCHANGED callVars
    /\ UNCHANGED uiVars
    /\ last' = [type |-> "importProject", file |-> file]
    /\ IF file.kind = "garbage"
       THEN thrown' = "SyntaxError" /\ UNCHANGED <<project, storage, lastSavedAt>>
       ELSE IF file.kind = "null"
       THEN thrown' = "TypeError" /\ UNCHANGED <<project, storage, lastSavedAt>>
       ELSE LET projectData == JSONparse(file)
            IN  IF ~basicValidation(projectData)
                THEN /\ thrown' = "Invalid project file format"
                     /\ UNCHANGED <<project, storage, lastSavedAt>>
                ELSE /\ \E now \in Clock :
                           project' = projectReducer(project,
                                         [type |-> "SET_PROJECT",
                                          payload |-> ensureSpecialOnImport(projectData, now)],
                                         now)
                     /\ storage' = <<JSONstringify(project)>>
                     /\ lastSavedAt' = project.lastModified
                     /\ thrown' = "none"

(* the body of saveToLocalStorage *)
saveToLocalStorage ==
    /\ storage' = <<JSONstringify(project)>>
    /\ lastSavedAt' = project.lastModified

(* the Save button, enabled while there are unsaved changes *)
handleSave ==
    /\ thrown # Uncaught
    /\ hasUnsavedChanges
    /\ saveToLocalStorage
    /\ last' = [type |-> "saveToLocalStorage"]
    /\ thrown' = "none"
    /\ UNCHANGED project
    /\ UNCHANGED timeVars
    /\ UNCHANGED callVars
    /\ UNCHANGED uiVars

(* ensureSpecialNotes of the store's initializer: a special note is added
   when no note has its id *)
ensureSpecialNotes(p, now) ==
    LET hasContext == \E i \in DOMAIN p.notes : p.notes[i].id = NoteContextId
        hasPersonal == \E i \in DOMAIN p.notes : p.notes[i].id = NotePersonalId
        withContext == IF hasContext THEN p.notes
                       ELSE Append(p.notes,
                                   specialNote(NoteContextId, "context", 50, 50, now))
        updatedNotes == IF hasPersonal THEN withContext
                        ELSE Append(withContext,
                                    specialNote(NotePersonalId, "personal-response",
                                                50, 150, now))
    IN  IF hasContext /\ hasPersonal THEN p ELSE spread(p, [notes |-> updatedNotes])

(* the page is loaded again: the store starts from the snapshot in local
   storage, or from the empty project when there is none or it cannot be
   read *)
initialLoad ==
    /\ thrown # Uncaught
    /\ \E now \in Clock :
          project' = IF storage = <<>> \/ storage[1].kind # "object"
                     THEN createEmptyProject(now)
                     ELSE LET parsed == JSONparse(storage[1]) IN
                          IF hasField(parsed, "notes")
                          THEN ensureSpecialNotes(parsed, now)
                          ELSE createEmptyProject(now)
    /\ lastSavedAt' = project'.lastModified
    /\ last' = [type |-> "initialLoad"]
    /\ thrown' = "none"
    /\ UNCHANGED storage
    /\ UNCHANGED timeVars
    /\ UNCHANGED callVars
    /\ UNCHANGED uiVars

createNewProject ==
    /\ thrown # Uncaught
    /\ \E now \in Clock :
          project' = projectReducer(project,
                        [type |-> "SET_PROJECT", payload |-> createEmptyProject(now)], now)
    /\ storage' = <<>>
    /\ last' = [type |-> "createNewProject"]
    /\ thrown' = "none"
    /\ UNCHANGED lastSavedAt
    /\ UNCHANGED timeVars
    /\ UNCHANGED callVars
    /\ UNCHANGED uiVars

IoNext ==
    \/ \E t \in Titles : updateTitle(t)
    \/ setDocumentContent(<<>>)
    \/ \E id \in {"n2", NoteContextId} : deleteNote(id)
    \/ \E f \in ImportFiles \cup {exportProject(project)} : importProject(f)
    \/ handleSave
    \/ createNewProject

IoSpec == Init /\ [][IoNext]_vars

(***************************************************************************)
(* Import, save and load again.  The files are a complete project, a       *)
(* project without the special notes, and one whose only note reuses the   *)
(* id of the context note without its type.                                *)
(***************************************************************************)
LoadPayloads ==
    { baseFile,
      [baseFile EXCEPT !.notes = <<untypedNote("n2", <<"h1">>, 1)>>],
      [baseFile EXCEPT !.notes = <<untypedNote(NoteContextId, <<"h1">>, 1)>>,
                       !.poem.highlights = <<highlight("h1", <<NoteContextId>>)>>,
                       !.connections = <<>>] }

LoadNext ==
    \/ \E t \in Titles : updateTitle(t)
    \/ \E id \in {"n2", NoteContextId} : deleteNote(id)
    \/ \E p \in LoadPayloads : importProject(JSONstringify(p))
    \/ handleSave
    \/ initialLoad

LoadSpec == Init /\ [][LoadNext]_vars

(***************************************************************************)
(* Auto-save.  The interval is set up by an effect whose dependencies are  *)
(* hasUnsavedChanges and saveToLocalStorage; saveToLocalStorage is made    *)
(* anew for every new project object, so every committed change of the     *)
(* store, and every save, clears the interval and starts a new one.  Time  *)
(* passes in ticks of a fraction of the interval.                          *)
(***************************************************************************)
Tick == AUTO_SAVE_INTERVAL \div TicksPerInterval

EditTitles == {"Sonnet", "Ode"}

tick ==
    /\ timer >= Tick
    /\ wall < MaxTicks * Tick
    /\ wall' = wall + Tick
    /\ timer' = timer - Tick
    /\ UNCHANGED <<project, last, thrown, storage, lastSavedAt, unsavedSince>>
    /\ UNCHANGED callVars
    /\ UNCHANGED uiVars

(* a change of the store, made at a time later than the previous one *)
edit(t) ==
    /\ project.lastModified < wall
    /\ t # project.title
    /\ reduce([type |-> "UPDATE_TITLE", payload |-> t], wall)
    /\ timer' = AUTO_SAVE_INTERVAL
    /\ unsavedSince' = IF unsavedSince = -1 THEN wall ELSE unsavedSince
    /\ UNCHANGED <<storage, lastSavedAt, wall>>
    /\ UNCHANGED callVars
    /\ UNCHANGED uiVars

(* the interval's callback *)
autoSave ==
    /\ timer < Tick
    /\ IF hasUnsavedChanges
       THEN saveToLocalStorage /\ unsavedSince' = -1
       ELSE UNCHANGED <<storage, lastSavedAt, unsavedSince>>
    /\ timer' = AUTO_SAVE_INTERVAL
    /\ last' = [type |-> "autoSave"]
    /\ UNCHANGED <<project, thrown, wall>>
    /\ UNCHANGED callVars
    /\ UNCHANGED uiVars

(* the Save button while the interval runs *)
manualSave ==
    /\ hasUnsavedChanges
    /\ saveToLocalStorage
    /\ timer' = AUTO_SAVE_INTERVAL
    /\ unsavedSince' = -1
    /\ last' = [type |-> "saveToLocalStorage"]
    /\ UNCHANGED <<project, thrown, wall>>
    /\ UNCHANGED callVars
    /\ UNCHANGED uiVars

AutoSaveNext ==
    \/ tick
    \/ \E t \in EditTitles : edit(t)
    \/ autoSave
    \/ manualSave

AutoSaveSpec == Init /\ [][AutoSaveNext]_vars

(***************************************************************************)
(* Layout of the notes on the canvas: src/src/utils/layoutAlgorithm.ts.    *)
(* Coordinates are integers; a note given to the layout is the record of   *)
(* its id and position, the only fields the layout reads.                  *)
(***************************************************************************)
DEFAULT_CONFIG ==
    [canvasWidth |-> 600, canvasHeight |-> 800,
     noteWidth |-> 200, noteHeight |-> 120,
     padding |-> 20, startX |-> 50, startY |-> 50]

hasCollision_closed(x, y, width, height, occupiedAreas) ==
    \E i \in DOMAIN occupiedAreas :
        LET area == occupiedAreas[i] IN
        /\ x <= area.x + area.width
        /\ x + width >= area.x
        /\ y <= area.y + area.height
        /\ y + height >= area.y

hasCollision(x, y, width, height, occupiedAreas) ==
    \E i \in DOMAIN occupiedAreas :
        LET area == occupiedAreas[i] IN
        /\ x < area.x + area.width
        /\ x + width > area.x
        /\ y < area.y + area.height
        /\ y + height > area.y

(* the rectangle a note at (x, y) occupies *)
occupied(x, y, cfg) ==
    [x |-> x, y |-> y, width |-> cfg.noteWidth, height |-> cfg.noteHeight]

(* the while loop of both placements: move down while the candidate
   collides, wrap to the top of the next column at the canvas's bottom,
   give up after cap attempts *)
RECURSIVE shiftSearch(_, _, _, _, _, _)
shiftSearch(x, y, attempts, cfg, occupiedAreas, cap) ==
    IF hasCollision(x, y, cfg.noteWidth, cfg.noteHeight, occupiedAreas) /\ attempts < cap
    THEN LET down == y + cfg.noteHeight + cfg.padding
             offScreen == down + cfg.noteHeight > cfg.canvasHeight
         IN  shiftSearch(IF offScreen THEN x + cfg.noteWidth + cfg.padding ELSE x,
                         IF offScreen THEN cfg.startY ELSE down,
                         attempts + 1, cfg, occupiedAreas, cap)
    ELSE [x |-> x, y |-> y, attempts |-> attempts]

maxCols(cfg) ==
    LET cols == (cfg.canvasWidth - cfg.startX) \div (cfg.noteWidth + cfg.padding)
    IN  IF cols > 1 THEN cols ELSE 1

(* every note without a position put on the start cell *)
placeEach_startCell(notes, index, cfg, occupiedAreas) ==
    [i \in DOMAIN notes |->
        IF notes[i].position.x # 0 \/ notes[i].position.y # 0
        THEN [id |-> notes[i].id, position |-> notes[i].position, kept |-> TRUE,
              col |-> -1, row |-> -1, attempts |-> 0]
        ELSE [id |-> notes[i].id, position |-> [x |-> cfg.startX, y |-> cfg.startY],
              kept |-> FALSE, col |-> 0, row |-> 0, attempts |-> 0]]

(* the forEach of calculateNotePositions from the given index on; one entry
   per note: its position, and the grid cell and number of attempts of its
   search (col = row = -1 for a note that kept its position) *)
RECURSIVE placeEach(_, _, _, _)
placeEach(notes, index, cfg, occupiedAreas) ==
    IF index >= Len(notes) THEN <<>>
    ELSE LET note == notes[index + 1] IN
         IF note.position.x # 0 \/ note.position.y # 0
         THEN <<[id |-> note.id, position |-> note.position, kept |-> TRUE,
                 col |-> -1, row |-> -1, attempts |-> 0]>>
              \o placeEach(notes, index + 1, cfg,
                           Append(occupiedAreas,
                                  occupied(note.position.x, note.position.y, cfg)))
         ELSE LET col == index % maxCols(cfg)
                  row == index \div maxCols(cfg)
                  x == cfg.startX + col * (cfg.noteWidth + cfg.padding)
                  y == cfg.startY + row * (cfg.noteHeight + cfg.padding)
                  found == shiftSearch(x, y, 0, cfg, occupiedAreas, 50)
              IN  <<[id |-> note.id, position |-> [x |-> found.x, y |-> found.y],
                     kept |-> FALSE, col |-> col, row |-> row,
                     attempts |-> found.attempts]>>
                  \o placeEach(notes, index + 1, cfg,
                               Append(occupiedAreas, occupied(found.x, found.y, cfg)))

calculateNotePositions(notes, config) ==
    placeEach(notes, 0, spread(DEFAULT_CONFIG, config), <<>>)

calculateNewNotePosition_ignoreAnchor(existingNotes, highlightRect, canvasRect) ==
    LET config == IF canvasRect.present
                  THEN spread(DEFAULT_CONFIG, [canvasWidth |-> canvasRect.width,
                                               canvasHeight |-> canvasRect.height])
                  ELSE DEFAULT_CONFIG
        occupiedAreas == [i \in DOMAIN existingNotes |->
                            occupied(existingNotes[i].position.x,
                                     existingNotes[i].position.y, config)]
    IN  shiftSearch(config.startX, config.startY, 0, config, occupiedAreas, 100)

calculateNewNotePosition(existingNotes, highlightRect, canvasRect) ==
    LET config == IF canvasRect.present
                  THEN spread(DEFAULT_CONFIG, [canvasWidth |-> canvasRect.width,
                                               canvasHeight |-> canvasRect.height])
                  ELSE DEFAULT_CONFIG
        startX == config.startX
        startY == IF highlightRect.present /\ canvasRect.present
                  THEN highlightRect.top - canvasRect.top
                  ELSE config.startY
        occupiedAreas == [i \in DOMAIN existingNotes |->
                            occupied(existingNotes[i].position.x,
                                     existingNotes[i].position.y, config)]
    IN  shiftSearch(startX, startY, 0, config, occupiedAreas, 100)

(***************************************************************************)
(* The layout functions applied to the inputs of a bounded family.         *)
(***************************************************************************)
storeVars == <<project, last, thrown, storage, lastSavedAt>>

LayoutNoteIds == <<"n1", "n2", "n3", "n4", "n5">>

Origin == [x |-> 0, y |-> 0]

(* no position yet, the first cells of the default grid, and a position
   off the grid *)
InputPositions ==
    {Origin, [x |-> 50, y |-> 50], [x |-> 50, y |-> 190], [x |-> 270, y |-> 50],
     [x |-> 100, y |-> 100]}

LayoutNotes ==
    UNION {{[i \in 1..k |-> [id |-> LayoutNoteIds[i], position |-> p[i]]] :
            p \in [1..k -> InputPositions]} : k \in 0..MaxNotes}

LayoutConfigs ==
    {<<>>, [canvasWidth |-> 300, canvasHeight |-> 300], [padding |-> 0],
     [canvasWidth |-> 200, canvasHeight |-> 100]}

NoRect == [present |-> FALSE]

HighlightRects == {NoRect, [present |-> TRUE, top |-> 100], [present |-> TRUE, top |-> 240]}

CanvasRects ==
    {NoRect, [present |-> TRUE, top |-> 50, width |-> 600, height |-> 800],
     [present |-> TRUE, top |-> 50, width |-> 600, height |-> 300]}

Rects ==
    [x : 0..MaxCoord, y : 0..MaxCoord, width : 1..MaxSide, height : 1..MaxSide]

LayoutCalls ==
    {[fn |-> "placeAll", notes |-> ns, config |-> c] :
        ns \in LayoutNotes, c \in LayoutConfigs}
    \cup {[fn |-> "placeNear", notes |-> ns, highlightRect |-> h, canvasRect |-> c] :
        ns \in LayoutNotes, h \in HighlightRects, c \in CanvasRects}
    \cup {[fn |-> "hasCollision", a |-> a, b |-> b] : a \in Rects, b \in Rects}

LayoutInit ==
    /\ project = createEmptyProject(0)
    /\ last = [type |-> "INIT"]
    /\ thrown = "none"
    /\ storage = <<>>
    /\ lastSavedAt = project.lastModified
    /\ wall = 0
    /\ timer = AUTO_SAVE_INTERVAL
    /\ unsavedSince = -1
    /\ args \in LayoutCalls
    /\ result = NoCall
    /\ viewState = initialViewState
    /\ editor = <<>>
    /\ effects = {}

placeAll ==
    /\ args.fn = "placeAll"
    /\ result = NoCall
    /\ result' = [fn |-> "placeAll",
                  placed |-> calculateNotePositions(args.notes, args.config)]
    /\ UNCHANGED <<storeVars, timeVars, uiVars, args>>

placeNear ==
    /\ args.fn = "placeNear"
    /\ result = NoCall
    /\ result' = [fn |-> "placeNear",
                  found |-> calculateNewNotePosition(args.notes, args.highlightRect,
                                                     args.canvasRect)]
    /\ UNCHANGED <<storeVars, timeVars, uiVars, args>>

(* the collision test on one pair of rectangles, and on the same pair with
   the roles exchanged *)
testCollision ==
    /\ args.fn = "hasCollision"
    /\ result = NoCall
    /\ result' = [fn |-> "hasCollision",
                  value |-> hasCollision(args.a.x, args.a.y, args.a.width,
                                         args.a.height, <<args.b>>),
                  exchanged |-> hasCollision(args.b.x, args.b.y, args.b.width,
                                             args.b.height, <<args.a>>)]
    /\ UNCHANGED <<storeVars, timeVars, uiVars, args>>

LayoutNext ==
    \/ placeAll
    \/ placeNear
    \/ testCollision

LayoutSpec == LayoutInit /\ [][LayoutNext]_vars

(***************************************************************************)
(* Numbers of the connector geometry.  A number is a fraction n / d with   *)
(* d > 0; d = 0 stands for what a division by zero leaves: Infinity        *)
(* (n = 1), -Infinity (n = -1) and NaN (n = 0).                            *)
(***************************************************************************)
num(k) == [n |-> k, d |-> 1]

NaN == [n |-> 0, d |-> 0]

abs(k) == IF k < 0 THEN -k ELSE k

sign(k) == IF k > 0 THEN 1 ELSE IF k < 0 THEN -1 ELSE 0

plus(a, b) ==
    IF a.d # 0 /\ b.d # 0 THEN [n |-> a.n * b.d + b.n * a.d, d |-> a.d * b.d]
    ELSE IF a.d # 0 THEN b
    ELSE IF b.d # 0 THEN a
    ELSE IF a.n = b.n THEN a ELSE NaN

minus(a, b) == plus(a, [n |-> -b.n, d |-> b.d])

times(a, b) ==
    IF a.d # 0 /\ b.d # 0 THEN [n |-> a.n * b.n, d |-> a.d * b.d]
    ELSE [n |-> sign(a.n) * sign(b.n), d |-> 0]

over(a, b) ==
    IF a.d = 0 THEN (IF b.d = 0 THEN NaN
                     ELSE [n |-> a.n * (IF b.n < 0 THEN -1 ELSE 1), d |-> 0])
    ELSE IF b.d = 0 THEN (IF b.n = 0 THEN NaN ELSE num(0))
    ELSE IF b.n = 0 THEN [n |-> sign(a.n), d |-> 0]
    ELSE [n |-> a.n * b.d * sign(b.n), d |-> a.d * abs(b.n)]

mathAbs(a) == [n |-> abs(a.n), d |-> a.d]

(* a > b, false whenever one side is NaN *)
greater(a, b) ==
    IF a.d # 0 /\ b.d # 0 THEN a.n * b.d > b.n * a.d
    ELSE IF (a.d = 0 /\ a.n = 0) \/ (b.d = 0 /\ b.n = 0) THEN FALSE
    ELSE IF a.d = 0 /\ b.d = 0 THEN a.n > b.n
    ELSE IF a.d = 0 THEN a.n > 0
    ELSE b.n < 0

(* a === b *)
same(a, b) ==
    IF a.d # 0 /\ b.d # 0 THEN a.n * b.d = b.n * a.d
    ELSE a.d = 0 /\ b.d = 0 /\ a.n # 0 /\ a.n = b.n

(***************************************************************************)
(* getIntersection of src/src/components/Notes/Note.tsx: where the line    *)
(* from (startX, startY) to the center of rect meets the border of rect.   *)
(***************************************************************************)
getIntersection_noGuard(startX, startY, rect) ==
    LET targetX == plus(rect.x, over(rect.width, num(2)))
        targetY == plus(rect.y, over(rect.height, num(2)))
        dx == minus(targetX, startX)
        dy == minus(targetY, startY)
        slope == over(dy, dx)
    IN  IF greater(mathAbs(over(dy, rect.height)), mathAbs(over(dx, rect.width)))
        THEN LET y == IF greater(dy, num(0)) THEN rect.y ELSE plus(rect.y, rect.height)
             IN  [x |-> plus(startX, over(minus(y, startY), slope)), y |-> y]
        ELSE LET x == IF greater(dx, num(0)) THEN rect.x ELSE plus(rect.x, rect.width)
             IN  [x |-> x, y |-> plus(startY, times(minus(x, startX), slope))]

getIntersection_farEdge(startX, startY, rect) ==
    LET targetX == plus(rect.x, over(rect.width, num(2)))
        targetY == plus(rect.y, over(rect.height, num(2)))
        dx == minus(targetX, startX)
        dy == minus(targetY, startY)
        slope == over(dy, dx)
    IN  IF same(dx, num(0)) /\ same(dy, num(0)) THEN [x |-> targetX, y |-> targetY]
        ELSE IF greater(mathAbs(over(dy, rect.height)), mathAbs(over(dx, rect.width)))
        THEN LET y == IF greater(dy, num(0)) THEN plus(rect.y, rect.height) ELSE rect.y
             IN  [x |-> plus(startX, over(minus(y, startY), slope)), y |-> y]
        ELSE LET x == IF greater(dx, num(0)) THEN rect.x ELSE plus(rect.x, rect.width)
             IN  [x |-> x, y |-> plus(startY, times(minus(x, startX), slope))]

getIntersection(startX, startY, rect) ==
    LET targetX == plus(rect.x, over(rect.width, num(2)))
        targetY == plus(rect.y, over(rect.height, num(2)))
        dx == minus(targetX, startX)
        dy == minus(targetY, startY)
        slope == over(dy, dx)
    IN  IF same(dx, num(0)) /\ same(dy, num(0)) THEN [x |-> targetX, y |-> targetY]
        ELSE IF greater(mathAbs(over(dy, rect.height)), mathAbs(over(dx, rect.width)))
        THEN LET y == IF greater(dy, num(0)) THEN rect.y ELSE plus(rect.y, rect.height)
             IN  [x |-> plus(startX, over(minus(y, startY), slope)), y |-> y]
        ELSE LET x == IF greater(dx, num(0)) THEN rect.x ELSE plus(rect.x, rect.width)
             IN  [x |-> x, y |-> plus(startY, times(minus(x, startX), slope))]

(* a rectangle with number fields *)
numRect(r) ==
    [x |-> num(r.x), y |-> num(r.y), width |-> num(r.width), height |-> num(r.height)]

(***************************************************************************)
(* calculateLines of NoteConnections.  The document is the list of the     *)
(* anchor elements in document order, each with the highlight ids of its   *)
(* data-highlight-id, the background-color of its style and its            *)
(* data-highlight-color ("none" when absent), its rectangle and the left   *)
(* and right of its paragraph; dom.noteEls gives the rectangle of the      *)
(* element of each note, dom.canvasRect that of the canvas.  A line's id   *)
(* is the tuple of the parts of its template string.                       *)
(***************************************************************************)
FallbackColor == "rgba(233, 69, 96, 0.5)"

ConnectionColor == "rgba(255, 193, 7, 0.4)"

(* x || y on an optional number *)
widthOr(note, other) ==
    IF hasField(note, "width") /\ note.width # 0 THEN note.width ELSE other

(* the forEach over the elements matching hId: the last element that
   carries the id, and the last color any such element supplies *)
RECURSIVE findHighlight(_, _, _, _)
findHighlight(marks, hId, i, acc) ==
    IF i > Len(marks) THEN acc
    ELSE LET el == marks[i] IN
         IF includes(el.ids, hId)
         THEN LET styled == IF el.style # "none" THEN el.style ELSE acc.color
                  color == IF el.dataColor # "none" THEN el.dataColor ELSE styled
              IN  findHighlight(marks, hId, i + 1, [el |-> i, color |-> color])
         ELSE findHighlight(marks, hId, i + 1, acc)

(* the rectangle of a note: its stored position, its stored width or the
   width of its element, the height of its element, both by the zoom *)
scaledRect(note, dom) ==
    LET el == dom.noteEls[note.id]
        nRect == IF el.present THEN [width |-> el.width, height |-> el.height]
                 ELSE [width |-> widthOr(note, 220), height |-> 100]
    IN  [x |-> num(note.position.x),
         y |-> num(note.position.y),
         width |-> IF widthOr(note, 0) # 0 THEN num(note.width)
                   ELSE over(num(nRect.width), num(dom.zoomLevel)),
         height |-> over(num(nRect.height), num(dom.zoomLevel))]

(* the fallback line drawn from the note's top instead of its middle *)
textLine_fromTop(note, hId, found, dom) ==
    [id |-> <<IF found.el # 0 THEN "text" ELSE "text-fallback", note.id, hId>>,
     x1 |-> num(0), y1 |-> num(note.position.y),
     x2 |-> num(note.position.x), y2 |-> num(note.position.y),
     type |-> "note-to-text", color |-> found.color]

(* the line of one text reference of a note *)
textLine(note, hId, found, dom) ==
    LET currentNoteRect == scaledRect(note, dom)
        zoom == num(dom.zoomLevel)
    IN  IF found.el # 0
        THEN LET hRect == dom.marks[found.el].rect
                 pRect == dom.marks[found.el].p
                 originY == over(minus(plus(num(hRect.top), over(num(hRect.height), num(2))),
                                       num(dom.canvasRect.top)), zoom)
                 noteCenterX == plus(num(note.position.x),
                                     over(currentNoteRect.width, num(2)))
                 highlightCenterX ==
                     over(minus(plus(num(hRect.left), over(num(hRect.width), num(2))),
                                num(dom.canvasRect.left)), zoom)
                 originX == IF greater(highlightCenterX, noteCenterX)
                            THEN over(minus(num(pRect.left), num(dom.canvasRect.left)), zoom)
                            ELSE over(minus(num(pRect.right), num(dom.canvasRect.left)), zoom)
                 intersection == getIntersection(originX, originY, currentNoteRect)
             IN  [id |-> <<"text", note.id, hId>>,
                  x1 |-> originX, y1 |-> originY,
                  x2 |-> intersection.x, y2 |-> intersection.y,
                  type |-> "note-to-text", color |-> found.color]
        ELSE LET fallbackY == plus(num(note.position.y),
                                   over(currentNoteRect.height, num(2)))
             IN  [id |-> <<"text-fallback", note.id, hId>>,
                  x1 |-> num(0), y1 |-> fallbackY,
                  x2 |-> num(note.position.x), y2 |-> fallbackY,
                  type |-> "note-to-text", color |-> found.color]

(* note.textReferences.forEach from reference j on *)
RECURSIVE eachReference(_, _, _, _)
eachReference(note, j, dom, acc) ==
    IF j > Len(note.textReferences) THEN acc
    ELSE LET hId == note.textReferences[j]
             found == findHighlight(dom.marks, hId, 1, [el |-> 0, color |-> FallbackColor])
             noteColors == IF note.id \in DOMAIN acc.noteColors THEN acc.noteColors
                           ELSE (note.id :> found.color) @@ acc.noteColors
         IN  eachReference(note, j + 1, dom,
                           [newLines |-> Append(acc.newLines, textLine(note, hId, found, dom)),
                            noteColors |-> noteColors])

(* notes.forEach from note i on *)
RECURSIVE eachNote(_, _, _, _)
eachNote(notes, i, dom, acc) ==
    IF i > Len(notes) THEN acc
    ELSE eachNote(notes, i + 1, dom, eachReference(notes[i], 1, dom, acc))

(* Array.prototype.find by id: the index of the first note, 0 if none *)
findNote(notes, id) ==
    IF \E i \in DOMAIN notes : notes[i].id = id
    THEN CHOOSE i \in DOMAIN notes :
            notes[i].id = id /\ \A j \in 1..(i - 1) : notes[j].id # id
    ELSE 0

connectionLine(conn, fromNote, toNote, dom, noteColors) ==
    LET fromRect == scaledRect(fromNote, dom)
        toRect == scaledRect(toNote, dom)
        fromCenterX == plus(fromRect.x, over(fromRect.width, num(2)))
        fromCenterY == plus(fromRect.y, over(fromRect.height, num(2)))
        toCenterX == plus(toRect.x, over(toRect.width, num(2)))
        toCenterY == plus(toRect.y, over(toRect.height, num(2)))
        originIntersection == getIntersection(toCenterX, toCenterY, fromRect)
        targetIntersection == getIntersection(fromCenterX, fromCenterY, toRect)
        lineColor == IF fromNote.id \in DOMAIN noteColors
                     THEN noteColors[fromNote.id] ELSE ConnectionColor
    IN  [id |-> <<conn.id>>,
         x1 |-> originIntersection.x, y1 |-> originIntersection.y,
         x2 |-> targetIntersection.x, y2 |-> targetIntersection.y,
         type |-> "note-to-note", color |-> lineColor]

(* connections.forEach from connection k on *)
RECURSIVE eachConnection(_, _, _, _, _)
eachConnection(connections, k, notes, dom, acc) ==
    IF k > Len(connections) THEN acc
    ELSE LET conn == connections[k]
             f == findNote(notes, conn.fromNoteId)
             t == findNote(notes, conn.toNoteId)
         IN  IF f # 0 /\ t # 0
             THEN LET fromNote == notes[f]
                      toNote == notes[t]
                      line == connectionLine(conn, fromNote, toNote, dom, acc.noteColors)
                      noteColors ==
                          IF toNote.id \notin DOMAIN acc.noteColors
                             /\ fromNote.id \in DOMAIN acc.noteColors
                          THEN (toNote.id :> acc.noteColors[fromNote.id]) @@ acc.noteColors
                          ELSE acc.noteColors
                  IN  eachConnection(connections, k + 1, notes, dom,
                                     [newLines |-> Append(acc.newLines, line),
                                      noteColors |-> noteColors])
             ELSE eachConnection(connections, k + 1, notes, dom, acc)

(* one run; ran = FALSE when the canvas has no rectangle and the lines are
   left as they were *)
calculateLines(notes, connections, dom) ==
    IF ~dom.canvasRect.present THEN [ran |-> FALSE]
    ELSE LET first == eachNote(notes, 1, dom, [newLines |-> <<>>, noteColors |-> <<>>])
             second == eachConnection(connections, 1, notes, dom, first)
         IN  [ran |-> TRUE, lines |-> second.newLines, noteColors |-> second.noteColors]

(***************************************************************************)
(* The connector functions applied to the inputs of a bounded family:      *)
(* getIntersection on origins of half-unit coordinates in and around small *)
(* rectangles; calculateLines on three notes, two highlights and short     *)
(* connection lists.                                                       *)
(***************************************************************************)
IntersectRects == [x : 0..1, y : 0..1, width : 1..MaxSide, height : 1..MaxSide]

HalfUnits == (-1)..(2 * (1 + MaxSide) + 1)

IntersectCalls ==
    {[fn |-> "getIntersection", startX |-> [n |-> ox, d |-> 2],
      startY |-> [n |-> oy, d |-> 2], rect |-> r] :
        ox \in HalfUnits, oy \in HalfUnits, r \in IntersectRects}

connectorNote(id, x, y, refs) ==
    [id |-> id, position |-> [x |-> x, y |-> y], textReferences |-> refs]

ConnectorNotes ==
    {<<connectorNote("n1", 50, 50, r1),
       [width |-> 300] @@ connectorNote("n2", 600, 50, r2),
       connectorNote("n3", 600, 300, <<>>)>> :
        r1 \in {<<>>, <<"h1">>, <<"h1", "h2">>, <<"h2", "h1">>},
        r2 \in {<<>>, <<"h2">>}}

anchorEl(ids, style, dataColor, top) ==
    [ids |-> ids, style |-> style, dataColor |-> dataColor,
     rect |-> [top |-> top, left |-> 400, width |-> 40, height |-> 20],
     p |-> [left |-> 380, right |-> 560]]

(* the elements of one highlight: none, one without a color, one with a
   style color *)
AnchorEls(hId, top) ==
    {<<>>,
     <<anchorEl(<<hId>>, "none", "none", top)>>,
     <<anchorEl(<<hId>>, "red", "none", top)>>}

(* and also one with both colors, shared with another highlight, and a
   colored one followed by a plain one *)
MoreAnchorEls(hId, top) ==
    AnchorEls(hId, top)
    \cup {<<anchorEl(<<hId, "h9">>, "red", "blue", top)>>,
          <<anchorEl(<<hId>>, "green", "none", top),
            anchorEl(<<hId>>, "none", "none", top + 20)>>}

Doms ==
    {[canvasRect |-> c, zoomLevel |-> z, marks |-> m1 \o m2,
      noteEls |-> [id \in {"n1", "n2", "n3"} |->
                     IF id = "n3" THEN NoRect
                     ELSE [present |-> TRUE, width |-> 220 * z, height |-> 100 * z]]] :
        c \in {[present |-> TRUE, top |-> 20, left |-> 10]},
        z \in {1, 2},
        m1 \in MoreAnchorEls("h1", 100), m2 \in AnchorEls("h2", 140)}
    \cup {[canvasRect |-> NoRect, zoomLevel |-> 1, marks |-> <<>>,
           noteEls |-> [id \in {"n1", "n2", "n3"} |-> NoRect]]}

ConnectorPairs == {<<"n1", "n2">>, <<"n2", "n3">>, <<"n3", "n1">>, <<"n3", "n4">>}

ConnectorConnectionIds == <<"c1", "c2", "c3", "c4">>

ConnectorConnections ==
    UNION {{[k \in 1..len |-> [id |-> ConnectorConnectionIds[k], fromNoteId |-> p[k][1],
                               toNoteId |-> p[k][2]]] :
            p \in [1..len -> ConnectorPairs]} : len \in 0..MaxConnections}

ConnectorCalls ==
    IntersectCalls
    \cup {[fn |-> "calculateLines", notes |-> ns, connections |-> cs, dom |-> dom] :
            ns \in ConnectorNotes, cs \in ConnectorConnections, dom \in Doms}

ConnectorInit ==
    /\ project = createEmptyProject(0)
    /\ last = [type |-> "INIT"]
    /\ thrown = "none"
    /\ storage = <<>>
    /\ lastSavedAt = project.lastModified
    /\ wall = 0
    /\ timer = AUTO_SAVE_INTERVAL
    /\ unsavedSince = -1
    /\ args \in ConnectorCalls
    /\ result = NoCall
    /\ viewState = initialViewState
    /\ editor = <<>>
    /\ effects = {}

intersect ==
    /\ args.fn = "getIntersection"
    /\ result = NoCall
    /\ result' = [fn |-> "getIntersection",
                  point |-> getIntersection(args.startX, args.startY, numRect(args.rect))]
    /\ UNCHANGED <<storeVars, timeVars, uiVars, args>>

(* the effect of NoteConnections running calculateLines; lines is the
   component's state, empty until a run sets it *)
connect ==
    /\ args.fn = "calculateLines"
    /\ result = NoCall
    /\ LET run == calculateLines(args.notes, args.connections, args.dom)
       IN  result' = IF run.ran
                     THEN [fn |-> "calculateLines", ran |-> TRUE, lines |-> run.lines,
                           noteColors |-> run.noteColors]
                     ELSE [fn |-> "calculateLines", ran |-> FALSE, lines |-> <<>>,
                           noteColors |-> <<>>]
    /\ UNCHANGED <<storeVars, timeVars, uiVars, args>>

ConnectorNext ==
    \/ intersect
    \/ connect

ConnectorSpec == ConnectorInit /\ [][ConnectorNext]_vars

(***************************************************************************)
(* The handlers of the note canvas and of the poem editor:                 *)
(* src/src/components/Notes/NotesCanvas.tsx and                            *)
(* src/src/components/Editor/PoemEditor.tsx.  The dispatches of a handler  *)
(* are reduced in order before the next render, and the effects of a       *)
(* render run before the next event is handled.                            *)
(***************************************************************************)
UiNoteIds == {"n1", "n2"}
UiHighlightIds == {"h1", "h2"}

(* the handlers run at one reading of the clock, after the project was
   created *)
UiClock == {MaxTime}

(* the text under a mark, as renderHTML prints it *)
Text == "t"

(* `conn-${Date.now()}` *)
connId(now) == <<"conn-", now>>

(* the reducer applied to the dispatches of one handler, in order *)
RECURSIVE reduceAll(_, _, _)
reduceAll(state, actions, now) ==
    IF Len(actions) = 0 THEN state
    ELSE reduceAll(projectReducer(state, Head(actions), now), Tail(actions), now)

(* the editor's onUpdate: every change of the document is dispatched *)
onUpdate(doc) == [type |-> "UPDATE_POEM_CONTENT", payload |-> getHTML(doc)]

(* the ids the marks of a document carry *)
markIds(doc) ==
    UNION {{doc[i].ids[k] : k \in DOMAIN doc[i].ids} : i \in {j \in DOMAIN doc : doc[j].mark}}

(* ids already handed out: uuidv4 and generateHighlightId never repeat one *)
usedNoteIds ==
    noteIds(project)
    \cup {viewState.selectedNoteId, viewState.linkingFromNoteId}
    \cup UNION {{project.notes[i].linkedNotes[k] : k \in DOMAIN project.notes[i].linkedNotes} :
                i \in DOMAIN project.notes}
    \cup UNION {{project.poem.highlights[i].noteIds[k] :
                    k \in DOMAIN project.poem.highlights[i].noteIds} :
                i \in DOMAIN project.poem.highlights}
    \cup UNION {{project.connections[i].fromNoteId, project.connections[i].toNoteId} :
                i \in DOMAIN project.connections}

usedHighlightIds ==
    highlightIds(project) \cup markIds(editor)
    \cup UNION {{project.notes[i].textReferences[k] :
                    k \in DOMAIN project.notes[i].textReferences} :
                i \in DOMAIN project.notes}

(* the rectangles the handlers measure: the selection and the notes panel *)
UiSelectionRects == {[present |-> TRUE, top |-> 240]}
UiCanvasRects == {[present |-> TRUE, top |-> 50, width |-> 600, height |-> 800]}

(* the selection button is shown for a selection that holds no highlight *)
selectable(i) == i \in DOMAIN editor /\ ~editor[i].mark

(* the link and delete buttons are rendered for the notes without a type *)
hasButtons(noteId) ==
    \E i \in DOMAIN project.notes :
        project.notes[i].id = noteId /\ ~hasType(project.notes[i])

(* handleStartLink: the link button of an untyped note *)
handleStartLink(noteId) ==
    /\ effects = {}
    /\ hasButtons(noteId)
    /\ viewState' = [viewState EXCEPT !.linkingFromNoteId = noteId]
    /\ last' = [type |-> "handleStartLink", noteId |-> noteId]
    /\ UNCHANGED <<project, thrown, storage, lastSavedAt, editor, effects>>
    /\ UNCHANGED timeVars
    /\ UNCHANGED callVars

(* handleNoteClick: a click on a rendered note *)
handleNoteClick(noteId) ==
    /\ effects = {}
    /\ noteId \in noteIds(project)
    /\ IF viewState.linkingFromNoteId # Null
       THEN /\ viewState' = [viewState EXCEPT !.linkingFromNoteId = Null]
            /\ IF viewState.linkingFromNoteId # noteId
               THEN /\ Len(project.connections) < MaxLinks
                    /\ \E now \in UiClock :
                          /\ project' = reduceAll(project,
                                 << [type |-> "LINK_NOTES",
                                     payload |-> [fromId |-> viewState.linkingFromNoteId,
                                                  toId |-> noteId]],
                                    [type |-> "ADD_CONNECTION",
                                     payload |-> connection(connId(now),
                                                            viewState.linkingFromNoteId,
                                                            noteId)] >>, now)
                          /\ last' = [type |-> "handleNoteClick", noteId |-> noteId,
                                      fromId |-> viewState.linkingFromNoteId,
                                      connectionId |-> connId(now)]
               ELSE /\ project' = project
                    /\ last' = [type |-> "handleNoteClick", noteId |-> noteId,
                                fromId |-> noteId, connectionId |-> Null]
       ELSE /\ viewState' = [viewState EXCEPT !.selectedNoteId = noteId]
            /\ project' = project
            /\ last' = [type |-> "handleNoteClick", noteId |-> noteId,
                        fromId |-> Null, connectionId |-> Null]
    /\ UNCHANGED <<thrown, storage, lastSavedAt, editor, effects>>
    /\ UNCHANGED timeVars
    /\ UNCHANGED callVars

(* handleCanvasClick: a click on the canvas itself *)
handleCanvasClick ==
    /\ effects = {}
    /\ viewState' = [viewState EXCEPT !.selectedNoteId = Null, !.linkingFromNoteId = Null]
    /\ last' = [type |-> "handleCanvasClick"]
    /\ UNCHANGED <<project, thrown, storage, lastSavedAt, editor, effects>>
    /\ UNCHANGED timeVars
    /\ UNCHANGED callVars

(* handleDeleteNote: the delete button of an untyped note *)
handleDeleteNote(noteId) ==
    /\ effects = {}
    /\ hasButtons(noteId)
    /\ \E now \in UiClock :
          project' = projectReducer(project, [type |-> "DELETE_NOTE", payload |-> noteId], now)
    /\ viewState' = [viewState EXCEPT
          !.selectedNoteId = IF @ = noteId THEN Null ELSE @,
          !.hoveredNoteId = IF @ = noteId THEN Null ELSE @]
    /\ effects' = {"cleanup"}
    /\ last' = [type |-> "handleDeleteNote", noteId |-> noteId]
    /\ UNCHANGED <<thrown, storage, lastSavedAt, editor>>
    /\ UNCHANGED timeVars
    /\ UNCHANGED callVars

(* handleCreateNote: the selection committed to a new note *)
handleCreateNote(i) ==
    /\ effects = {}
    /\ selectable(i)
    /\ \E highlightId \in UiHighlightIds \ usedHighlightIds,
          noteId \in UiNoteIds \ usedNoteIds,
          selectionRect \in UiSelectionRects, canvasRect \in UiCanvasRects,
          now \in UiClock :
          LET doc == [editor EXCEPT ![i] = mark(<<highlightId>>)]
              found == calculateNewNotePosition(project.notes, selectionRect, canvasRect)
              note == [id |-> noteId, content |-> "",
                       position |-> [x |-> found.x, y |-> found.y],
                       textReferences |-> <<highlightId>>, linkedNotes |-> <<>>,
                       createdAt |-> now, lastModified |-> now]
          IN  /\ editor' = doc
              /\ project' = reduceAll(project,
                     << onUpdate(doc),
                        [type |-> "ADD_HIGHLIGHT",
                         payload |-> highlight(highlightId, <<noteId>>)],
                        [type |-> "ADD_NOTE", payload |-> note] >>, now)
              /\ viewState' = [viewState EXCEPT !.selectedNoteId = noteId,
                                                !.linkingFromNoteId = Null]
              /\ last' = [type |-> "handleCreateNote", noteId |-> noteId,
                          highlightId |-> highlightId]
    /\ effects' = {"cleanup"}
    /\ UNCHANGED <<thrown, storage, lastSavedAt>>
    /\ UNCHANGED timeVars
    /\ UNCHANGED callVars

(* handleLinkToNote: the selection committed to the note linking started
   from; the button is shown while linkingFromNoteId is set *)
handleLinkToNote(i) ==
    /\ effects = {}
    /\ selectable(i)
    /\ viewState.linkingFromNoteId # Null
    /\ IF viewState.linkingFromNoteId \notin noteIds(project)
       THEN /\ last' = [type |-> "handleLinkToNote", noteId |-> viewState.linkingFromNoteId,
                        highlightId |-> Null]
            /\ UNCHANGED <<project, viewState, editor, effects>>
       ELSE \E highlightId \in UiHighlightIds \ usedHighlightIds, now \in UiClock :
              LET doc == [editor EXCEPT ![i] = mark(<<highlightId>>)] IN
              /\ editor' = doc
              /\ project' = reduceAll(project,
                     << onUpdate(doc),
                        [type |-> "ADD_HIGHLIGHT",
                         payload |-> highlight(highlightId,
                                               <<viewState.linkingFromNoteId>>)],
                        [type |-> "UPDATE_NOTE_REFERENCES",
                         payload |-> [id |-> viewState.linkingFromNoteId,
                                      highlightId |-> highlightId]] >>, now)
              /\ viewState' = [viewState EXCEPT
                                  !.linkingFromNoteId = Null,
                                  !.selectedNoteId = viewState.linkingFromNoteId]
              /\ effects' = {"cleanup"}
              /\ last' = [type |-> "handleLinkToNote",
                          noteId |-> viewState.linkingFromNoteId,
                          highlightId |-> highlightId]
    /\ UNCHANGED <<thrown, storage, lastSavedAt>>
    /\ UNCHANGED timeVars
    /\ UNCHANGED callVars

(* the user deletes a range of the poem; the editor reports the change *)
deleteRange(i) ==
    /\ effects = {}
    /\ i \in DOMAIN editor
    /\ LET doc == SubSeq(editor, 1, i - 1) \o SubSeq(editor, i + 1, Len(editor)) IN
       /\ editor' = doc
       /\ \E now \in UiClock : project' = projectReducer(project, onUpdate(doc), now)
    /\ effects' = {"cleanup"}
    /\ last' = [type |-> "deleteRange", range |-> i]
    /\ UNCHANGED <<thrown, storage, lastSavedAt, viewState>>
    /\ UNCHANGED timeVars
    /\ UNCHANGED callVars

(* variant of the cleanup: a mark is stripped when none of its ids is left
   and kept as it is otherwise *)
RECURSIVE cleanupEach_stripOnly(_, _, _, _, _, _)
cleanupEach_stripOnly(nodes, pos, validIds, doc, state, now) ==
    IF pos > Len(nodes) THEN [doc |-> doc, state |-> state]
    ELSE IF ~nodes[pos].mark
    THEN cleanupEach_stripOnly(nodes, pos + 1, validIds, doc, state, now)
    ELSE LET ids == nodes[pos].ids
             filteredIds == SelectSeq(ids, LAMBDA id : includes(validIds, id))
             stripped == [doc EXCEPT ![pos] = plain(<<Text>>)]
         IN  IF Len(filteredIds) = 0
             THEN cleanupEach_stripOnly(nodes, pos + 1, validIds, stripped,
                      projectReducer(state, onUpdate(stripped), now), now)
             ELSE cleanupEach_stripOnly(nodes, pos + 1, validIds, doc, state, now)

(* the descendants walk of the cleanup effect over the nodes of the
   document it started from: a mark none of whose ids the store holds is
   stripped, a mark that lost some of its ids keeps the others, and every
   change of the document goes through onUpdate *)
RECURSIVE cleanupEach(_, _, _, _, _, _)
cleanupEach(nodes, pos, validIds, doc, state, now) ==
    IF pos > Len(nodes) THEN [doc |-> doc, state |-> state]
    ELSE IF ~nodes[pos].mark
    THEN cleanupEach(nodes, pos + 1, validIds, doc, state, now)
    ELSE LET ids == nodes[pos].ids
             filteredIds == SelectSeq(ids, LAMBDA id : includes(validIds, id))
             stripped == [doc EXCEPT ![pos] = plain(<<Text>>)]
             updated == [doc EXCEPT ![pos] = mark(filteredIds)]
         IN  IF Len(filteredIds) = 0
             THEN cleanupEach(nodes, pos + 1, validIds, stripped,
                      projectReducer(state, onUpdate(stripped), now), now)
             ELSE IF Len(filteredIds) # Len(ids)
             THEN cleanupEach(nodes, pos + 1, validIds, updated,
                      projectReducer(state, onUpdate(updated), now), now)
             ELSE cleanupEach(nodes, pos + 1, validIds, doc, state, now)

(* the cleanup effect of PoemEditor, run after a render whose highlights
   array is a new one; its own dispatches make the next render run it
   again *)
cleanup ==
    /\ effects = {"cleanup"}
    /\ \E now \in UiClock :
          LET validIds == [i \in DOMAIN project.poem.highlights |->
                              project.poem.highlights[i].id]
              after == cleanupEach(editor, 1, validIds, editor, project, now)
          IN  /\ editor' = after.doc
              /\ project' = after.state
              /\ effects' = IF after.doc # editor THEN {"cleanup"} ELSE {}
              /\ last' = [type |-> "cleanup", changed |-> after.doc # editor]
    /\ UNCHANGED <<thrown, storage, lastSavedAt, viewState>>
    /\ UNCHANGED timeVars
    /\ UNCHANGED callVars

(* the project the editor opens on: the poem just typed, or a stored
   project whose two notes annotate the same range *)
typedProject ==
    [createEmptyProject(0) EXCEPT !.poem.content = getHTML(<<plain(<<Text>>), plain(<<Text>>)>>)]

storedProject ==
    [createEmptyProject(0) EXCEPT
        !.poem = [content |-> getHTML(<<mark(<<"h1", "h2">>), plain(<<Text>>)>>),
                  highlights |-> <<highlight("h1", <<"n1">>), highlight("h2", <<"n2">>)>>],
        !.notes = @ \o <<untypedNote("n1", <<"h1">>, 0), untypedNote("n2", <<"h2">>, 0)>>]

UiInit ==
    /\ \/ project = typedProject /\ editor = <<plain(<<Text>>), plain(<<Text>>)>>
       \/ project = storedProject /\ editor = <<mark(<<"h1", "h2">>), plain(<<Text>>)>>
    /\ last = [type |-> "INIT"]
    /\ thrown = "none"
    /\ storage = <<>>
    /\ lastSavedAt = project.lastModified
    /\ wall = 0
    /\ timer = AUTO_SAVE_INTERVAL
    /\ unsavedSince = -1
    /\ args = NoCall
    /\ result = NoCall
    /\ viewState = initialViewState
    /\ effects = {}

UiNext ==
    \/ \E noteId \in UiNoteIds : handleStartLink(noteId)
    \/ \E noteId \in NoteIds : handleNoteClick(noteId)
    \/ handleCanvasClick
    \/ \E noteId \in UiNoteIds : handleDeleteNote(noteId)
    \/ \E i \in 1..2 : handleCreateNote(i)
    \/ \E i \in 1..2 : handleLinkToNote(i)
    \/ \E i \in 1..2 : deleteRange(i)
    \/ cleanup

UiSpec == UiInit /\ [][UiNext]_vars

(* React runs the effects of every render it commits *)
UiLiveSpec == UiSpec /\ WF_vars(cleanup)

(***************************************************************************)
(* Properties of the store.                                                *)
(***************************************************************************)
notesOfType(state, ty) == {i \in DOMAIN state.notes : typeOf(state.notes[i]) = ty}

isUntypedNote(state, id) ==
    \E i \in DOMAIN state.notes : state.notes[i].id = id /\ ~hasType(state.notes[i])

isSpecialNote(state, id) ==
    \E i \in DOMAIN state.notes :
        state.notes[i].id = id /\ typeOf(state.notes[i]) \in SpecialTypes

(* the ids an anchor marker carries: the tokens of a data-highlight-id
   attribute value, up to its closing quote, split at the commas *)
markerIds(content) ==
    {content[k] : k \in {k \in DOMAIN content :
        /\ content[k] \notin {Comma, Quote, AttrOpen}
        /\ \E i \in 1..(k - 1) :
              /\ content[i] = AttrOpen
              /\ \A j \in (i + 1)..k : content[j] # Quote}}

(* C1: from the empty project, after any sequence of store transitions
   other than whole-project replacement, a note of type context and a note
   of type personal-response are both present. *)
C1_SpecialNotesPresent ==
    /\ notesOfType(project, "context") # {}
    /\ notesOfType(project, "personal-response") # {}

C1_Witness ==
    /\ last.type = "DELETE_NOTE"
    /\ last.payload = NoteContextId
    /\ C1_SpecialNotesPresent
    /\ Len(project.notes) > 2

(* C2: deleteNote(id) on an existing untyped note leaves, in the one
   transition, no note with that id, no linkedNotes entry, no connection
   endpoint and no highlight noteIds entry naming id; a highlight is kept
   iff it names another note. *)
C2_DeleteNoteCascade ==
    [][ (last'.type = "DELETE_NOTE" /\ isUntypedNote(project, last'.payload)) =>
          LET id == last'.payload
              after == project'
          IN  /\ id \notin noteIds(after)
              /\ \A i \in DOMAIN after.notes : ~includes(after.notes[i].linkedNotes, id)
              /\ \A i \in DOMAIN after.connections :
                    /\ after.connections[i].fromNoteId # id
                    /\ after.connections[i].toNoteId # id
              /\ \A i \in DOMAIN after.poem.highlights :
                    ~includes(after.poem.highlights[i].noteIds, id)
              /\ \A i \in DOMAIN project.poem.highlights :
                    LET h == project.poem.highlights[i]
                    IN  (h.id \in highlightIds(after)) <=>
                            (\E k \in DOMAIN h.noteIds : h.noteIds[k] # id)
      ]_vars

C2_Witness ==
    /\ last.type = "DELETE_NOTE"
    /\ last.payload = "n1"
    /\ noteIds(project) = {NoteContextId, NotePersonalId, "n2"}
    /\ \E i \in DOMAIN project.poem.highlights :
          project.poem.highlights[i].id = "h1" /\ project.poem.highlights[i].noteIds = <<"n2">>
    /\ Len(project.poem.highlights) = 2
    /\ project.connections = <<>>

(* C3: after setDocumentContent(c) an untyped note of the previous state is
   present iff a surviving highlight is in its textReferences, or a
   connection of the previous state has it as an endpoint, or its
   linkedNotes is non-empty, or a note of the previous state lists it in
   linkedNotes. *)
C3_ReconcileSurvival ==
    [][ last'.type = "UPDATE_POEM_CONTENT" =>
          \A i \in DOMAIN project.notes :
             LET n == project.notes[i]
                 after == project'
                 tied ==
                    \/ \E k \in DOMAIN after.poem.highlights :
                          includes(n.textReferences, after.poem.highlights[k].id)
                    \/ \E k \in DOMAIN project.connections :
                          \/ project.connections[k].fromNoteId = n.id
                          \/ project.connections[k].toNoteId = n.id
                    \/ Len(n.linkedNotes) > 0
                    \/ \E k \in DOMAIN project.notes :
                          includes(project.notes[k].linkedNotes, n.id)
             IN  ~hasType(n) =>
                    ((\E j \in DOMAIN after.notes : after.notes[j] = n) <=> tied)
      ]_vars

C3_Witness ==
    /\ last.type = "UPDATE_POEM_CONTENT"
    /\ noteIds(project) = {NoteContextId, NotePersonalId, "n2"}
    /\ highlightIds(project) = {"h2"}

(* C4: after setDocumentContent(c) the highlight set is exactly the previous
   highlights whose id occurs in the id list of some anchor marker of c. *)
C4_HighlightsExactlyMarked ==
    [][ last'.type = "UPDATE_POEM_CONTENT" =>
          LET c == last'.payload
          IN  project'.poem.highlights =
                 SelectSeq(project.poem.highlights, LAMBDA h : h.id \in markerIds(c))
      ]_vars

scenarioBeforeDelete(state) ==
    /\ [i \in DOMAIN state.notes |-> state.notes[i].id]
          = <<NoteContextId, NotePersonalId, "n1", "n2">>
    /\ \A i \in {1, 2, 4} : state.notes[i].linkedNotes = <<>>
    /\ \A i \in {1, 2, 4} : state.notes[i].textReferences = <<>>
    /\ ~hasType(state.notes[3]) /\ ~hasType(state.notes[4])
    /\ state.notes[3].textReferences = <<"h1">>
    /\ state.notes[3].linkedNotes = <<"n2">>
    /\ Len(state.poem.highlights) = 1
    /\ state.poem.highlights[1].id = "h1"
    /\ state.poem.highlights[1].noteIds = <<"n1">>
    /\ Len(state.connections) = 1
    /\ state.connections[1].fromNoteId = "n1"
    /\ state.connections[1].toNoteId = "n2"

scenarioAfterDelete(state) ==
    /\ [i \in DOMAIN state.notes |-> state.notes[i].id]
          = <<NoteContextId, NotePersonalId, "n2">>
    /\ \A i \in {1, 2, 3} : state.notes[i].linkedNotes = <<>>
    /\ \A i \in {1, 2, 3} : state.notes[i].textReferences = <<>>
    /\ ~hasType(state.notes[3])
    /\ state.poem.highlights = <<>>
    /\ state.connections = <<>>

(* C5: in the scenario (highlight h1 of n1, notes n1 and n2, link and
   connection n1 -> n2), deleteNote(n1) leaves h1 and the connection absent
   and n2 present; n2 then stays until the next setDocumentContent, which
   removes it. *)
C5_DeleteThenReconcile ==
    [][ /\ (scenarioBeforeDelete(project)
               /\ last'.type = "DELETE_NOTE" /\ last'.payload = "n1") =>
              /\ "h1" \notin highlightIds(project')
              /\ project'.connections = <<>>
              /\ "n2" \in noteIds(project')
              /\ scenarioAfterDelete(project')
        /\ (scenarioAfterDelete(project) /\ last'.type = "UPDATE_POEM_CONTENT") =>
              "n2" \notin noteIds(project')
        /\ (scenarioAfterDelete(project)
               /\ last'.type \notin {"UPDATE_POEM_CONTENT", "DELETE_NOTE"}) =>
              "n2" \in noteIds(project')
      ]_vars

C5_Witness ==
    /\ last.type = "DELETE_NOTE"
    /\ last.payload = "n1"
    /\ scenarioAfterDelete(project)

(* C6: in every reachable state every id in every highlight's noteIds names
   a note present in the store. *)
C6_NoteIdsLive ==
    \A i \in DOMAIN project.poem.highlights :
        \A k \in DOMAIN project.poem.highlights[i].noteIds :
            project.poem.highlights[i].noteIds[k] \in noteIds(project)

(* C7: in every reachable state there is exactly one note of type context
   and exactly one note of type personal-response. *)
C7_ExactlyOneOfEachSpecial ==
    /\ Cardinality(notesOfType(project, "context")) = 1
    /\ Cardinality(notesOfType(project, "personal-response")) = 1

(* C8: deleteNote(id) where id names a special note leaves notes,
   highlights, connections and document content as they were. *)
C8_DeleteSpecialNoop ==
    [][ (last'.type = "DELETE_NOTE" /\ isSpecialNote(project, last'.payload)) =>
          /\ project'.notes = project.notes
          /\ project'.poem = project.poem
          /\ project'.connections = project.connections
      ]_vars

C8_Witness ==
    /\ last.type = "DELETE_NOTE"
    /\ last.payload = "n2"
    /\ isSpecialNote(project, "n2")
    /\ \E i \in DOMAIN project.notes : includes(project.notes[i].linkedNotes, "n2")
    /\ Len(project.connections) = 1
    /\ Len(project.poem.highlights) = 1

(* C9: deleteNote(id) where id names no note in the store leaves the
   highlights, the notes and the connections as they were. *)
C9_DeleteUnknownNoop ==
    [][ (last'.type = "DELETE_NOTE" /\ last'.payload \notin noteIds(project)) =>
          /\ project'.poem.highlights = project.poem.highlights
          /\ project'.notes = project.notes
          /\ project'.connections = project.connections
      ]_vars

(* C10: linkNotes(fromId, toId) where toId names no note in the store
   leaves every note's linkedNotes unchanged. *)
C10_LinkUnknownNoop ==
    [][ (last'.type = "LINK_NOTES" /\ last'.payload.toId \notin noteIds(project)) =>
          \A i \in DOMAIN project.notes :
             /\ i \in DOMAIN project'.notes
             /\ project'.notes[i].linkedNotes = project.notes[i].linkedNotes
      ]_vars

(* the operations that look a note, a highlight or a connection up by id,
   given an id the store does not hold *)
unknownIdCase(state, action) ==
    \/ /\ action.type \in {"UPDATE_NOTE", "UPDATE_NOTE_POSITION"}
       /\ action.payload.id \notin noteIds(state)
    \/ /\ action.type = "TOGGLE_NOTE_COLLAPSE"
       /\ action.payload \notin noteIds(state)
    \/ /\ action.type = "REMOVE_HIGHLIGHT"
       /\ action.payload \notin highlightIds(state)
    \/ /\ action.type = "REMOVE_CONNECTION"
       /\ action.payload \notin connectionIds(state)
    \/ /\ action.type \in {"LINK_NOTES", "UNLINK_NOTES"}
       /\ action.payload.fromId \notin noteIds(state)

sameGraph(before, after) ==
    /\ after.poem.highlights = before.poem.highlights
    /\ after.notes = before.notes
    /\ after.connections = before.connections

(* C11 (as stated): updateNote, updateNotePosition, toggleCollapse,
   removeHighlight, removeConnection, and linkNotes / unlinkNotes with an
   unknown fromId, given an id the store does not hold, leave highlights,
   notes and connections identical. *)
C11_UnknownIdNoop ==
    [][ unknownIdCase(project, last') => sameGraph(project, project') ]_vars

(* C11 (amended): the same, except that unlinkNotes with an unknown fromId
   still removes every connection whose endpoints are exactly (fromId,
   toId); it leaves highlights, notes and all other connections alone. *)
C11_UnknownIdNoopButUnlink ==
    [][ unknownIdCase(project, last') =>
          IF last'.type = "UNLINK_NOTES"
          THEN /\ project'.poem.highlights = project.poem.highlights
               /\ project'.notes = project.notes
               /\ project'.connections =
                     SelectSeq(project.connections, LAMBDA c :
                        ~(c.fromNoteId = last'.payload.fromId
                             /\ c.toNoteId = last'.payload.toId))
          ELSE sameGraph(project, project')
      ]_vars

C11_Witness ==
    /\ last.type = "UPDATE_NOTE"
    /\ last.payload.id = "n2"
    /\ noteIds(project) = {NoteContextId, NotePersonalId, "n1"}
    /\ Len(project.poem.highlights) = 2
    /\ Len(project.connections) = 2

count(s, x) == Cardinality({i \in DOMAIN s : s[i] = x})

(* C12: linkNotes is idempotent: applied a second time with the same
   arguments it leaves every linkedNotes as the first application left it,
   and it never makes toId occur more than once in a linkedNotes where it
   occurred at most once before. *)
C12_LinkIdempotent ==
    [][ last'.type = "LINK_NOTES" =>
          /\ \A now \in 0..MaxTime :
                LET twice == projectReducer(project', last', now)
                IN  [i \in DOMAIN twice.notes |-> twice.notes[i].linkedNotes]
                       = [i \in DOMAIN project'.notes |-> project'.notes[i].linkedNotes]
          /\ \A i \in DOMAIN project.notes :
                count(project.notes[i].linkedNotes, last'.payload.toId) <= 1 =>
                   count(project'.notes[i].linkedNotes, last'.payload.toId) <= 1
      ]_vars

C12_Witness ==
    /\ last.type = "LINK_NOTES"
    /\ last.payload = [fromId |-> "n1", toId |-> "n2"]
    /\ \E i \in DOMAIN project.notes :
          /\ project.notes[i].id = "n1"
          /\ project.notes[i].linkedNotes = <<"n2">>

(* C13: after unlinkNotes(fromId, toId) toId is not in from.linkedNotes and
   no connection (fromId, toId) remains; every other connection, (toId,
   fromId) included, and every other note's linkedNotes are unchanged. *)
C13_UnlinkFrame ==
    [][ last'.type = "UNLINK_NOTES" =>
          LET f == last'.payload.fromId
              t == last'.payload.toId
              matches(c) == c.fromNoteId = f /\ c.toNoteId = t
          IN  /\ DOMAIN project'.notes = DOMAIN project.notes
              /\ \A i \in DOMAIN project.notes :
                    IF project.notes[i].id = f
                    THEN ~includes(project'.notes[i].linkedNotes, t)
                    ELSE project'.notes[i].linkedNotes = project.notes[i].linkedNotes
              /\ \A i \in DOMAIN project'.connections : ~matches(project'.connections[i])
              /\ project'.connections =
                    SelectSeq(project.connections, LAMBDA c : ~matches(c))
      ]_vars

C13_Witness ==
    /\ last.type = "UNLINK_NOTES"
    /\ last.payload = [fromId |-> "n1", toId |-> "n2"]
    /\ [i \in DOMAIN project.notes |-> project.notes[i].id]
          = <<NoteContextId, NotePersonalId, "n1", "n2">>
    /\ project.notes[3].linkedNotes = <<>>
    /\ project.notes[4].linkedNotes = <<"n1">>
    /\ [i \in DOMAIN project.connections |-> project.connections[i].id] = <<"c1", "c2">>
    /\ \A i \in DOMAIN project.connections :
          project.connections[i].fromNoteId = "n2" /\ project.connections[i].toNoteId = "n1"

(* C14: addConnection always appends, so the connection list grows by
   exactly one even when the pair is connected already (two connections,
   one linkedNotes entry); removeConnection(id) removes exactly the
   connections whose id is id. *)
C14_ConnectionAppendRemove ==
    [][ /\ last'.type = "ADD_CONNECTION" =>
              /\ project'.connections = Append(project.connections, last'.payload)
              /\ Len(project'.connections) = Len(project.connections) + 1
              /\ project'.notes = project.notes
        /\ last'.type = "REMOVE_CONNECTION" =>
              project'.connections =
                 SelectSeq(project.connections, LAMBDA c : c.id # last'.payload)
      ]_vars

C14_Witness ==
    /\ last.type = "ADD_CONNECTION"
    /\ Len(project.connections) = 2
    /\ \A i \in DOMAIN project.connections :
          project.connections[i].fromNoteId = "n1" /\ project.connections[i].toNoteId = "n2"
    /\ \E i \in DOMAIN project.notes :
          project.notes[i].id = "n1" /\ project.notes[i].linkedNotes = <<"n2">>

(* C15: in every reachable state every connection mirrors a linkedNotes
   edge: the note fromNoteId exists and its linkedNotes contains
   toNoteId. *)
C15_ConnectionsMirrorLinks ==
    \A i \in DOMAIN project.connections :
        \E k \in DOMAIN project.notes :
            /\ project.notes[k].id = project.connections[i].fromNoteId
            /\ includes(project.notes[k].linkedNotes, project.connections[i].toNoteId)

(* the transition, taken at time now, stamps the project with now *)
stamps(state, action) ==
    \A now \in 0..MaxTime : projectReducer(state, action, now).lastModified = now

(* C16 (as stated): every store transition, whatever its arguments, sets
   the project's lastModified to the time of the transition. *)
C16_EveryTransitionStamps ==
    [][ stamps(project, last') ]_vars

(* C16 (amended): every store transition sets lastModified to the time of
   the transition, so that lastModified strictly increases with a strictly
   increasing clock, except deleteNote of a note that carries a type (the
   special notes, or a note of type default), which returns the state as
   it was, timestamp included, and whole-project replacement, which
   installs the payload with the payload's own timestamp. *)
C16_TransitionsStampButGuard ==
    [][ /\ \A now \in 0..MaxTime :
              projectReducer(project, [type |-> "SET_PROJECT", payload |-> project'], now)
                 = project'
        /\ IF last'.type = "DELETE_NOTE" /\ findIsTyped(project.notes, last'.payload)
           THEN project' = project
           ELSE /\ stamps(project, last')
                /\ project'.lastModified >= project.lastModified
                /\ \A now \in 0..MaxTime :
                      now > project.lastModified =>
                         projectReducer(project, last', now).lastModified
                            > project.lastModified
      ]_vars

C16_Witness ==
    /\ last.type = "ADD_NOTE"
    /\ project.lastModified = 1
    /\ Len(project.notes) = 3

(* the file is not parseable, or what it parses to has no projectId, no
   poem or no notes *)
lacksRequired(file) ==
    \/ file.kind # "object"
    \/ \E key \in {"projectId", "poem", "notes"} :
          \A i \in DOMAIN file.members : file.members[i][1] # key

(* C17: importing a payload that is missing projectId, poem or notes, or
   that is not parseable, is rejected with an error and leaves the store
   state and the persisted snapshot exactly as they were. *)
C17_ImportRejectsIncomplete ==
    [][ (last'.type = "importProject" /\ lacksRequired(last'.file)) =>
          /\ thrown' # "none"
          /\ project' = project
          /\ storage' = storage
          /\ lastSavedAt' = lastSavedAt
      ]_vars

C17_Witness ==
    /\ last.type = "importProject"
    /\ last.file.kind = "object"
    /\ lacksRequired(last.file)
    /\ thrown = "Invalid project file format"
    /\ project.title = "Imported"
    /\ storage # <<>>

(* C18: after any accepted import every store transition on the resulting
   state completes without raising, payloads that lack connections or
   poem.highlights included. *)
C18_ReducerTotalAfterImport ==
    thrown # Uncaught

(* C19: for every reachable store state s that holds both special notes,
   exporting s and importing the exported payload is accepted and yields a
   store state equal to s. *)
C19_ExportImportRoundTrip ==
    [][ ( /\ last'.type = "importProject"
          /\ last'.file = exportProject(project)
          /\ notesOfType(project, "context") # {}
          /\ notesOfType(project, "personal-response") # {} ) =>
          /\ thrown' = "none"
          /\ project' = project
      ]_vars

C19_Witness ==
    /\ last.type = "importProject"
    /\ last.file = exportProject(project)
    /\ thrown = "none"
    /\ project.title = "Sonnet"
    /\ Len(project.notes) = 3
    /\ hasField(project, "connections") /\ Len(project.connections) = 1
    /\ hasField(project.poem, "highlights") /\ Len(project.poem.highlights) = 1

(* C20: whenever the project has unsaved changes, the latest committed
   snapshot is written to local storage within one auto-save interval of
   the change, for every pattern of further edits arriving in the
   meantime. *)
C20_SavedWithinInterval ==
    unsavedSince >= 0 => wall - unsavedSince <= AUTO_SAVE_INTERVAL

(***************************************************************************)
(* Properties of the layout.                                               *)
(***************************************************************************)
unplaced(note) == note.position.x = 0 /\ note.position.y = 0

layoutConfig == spread(DEFAULT_CONFIG, args.config)

(* two open intervals (lo1, hi1) and (lo2, hi2) with integer ends share a
   point iff they share one at half-unit resolution *)
openOverlap(lo1, hi1, lo2, hi2) ==
    \E k \in (2 * lo1 + 1)..(2 * hi1 - 1) : 2 * lo2 < k /\ k < 2 * hi2

rectsOverlap(a, b) ==
    /\ openOverlap(a.x, a.x + a.width, b.x, b.x + b.width)
    /\ openOverlap(a.y, a.y + a.height, b.y, b.y + b.height)

(* C21: placeAll returns pairwise distinct positions whenever no input note
   carries a non-origin position and the note count is below
   columns x floor(canvasHeight / rowHeight). *)
C21_DistinctPositions ==
    (/\ result.fn = "placeAll"
     /\ \A i \in DOMAIN args.notes : unplaced(args.notes[i])
     /\ Len(args.notes) < maxCols(layoutConfig)
            * (layoutConfig.canvasHeight
                \div (layoutConfig.noteHeight + layoutConfig.padding)))
    => \A i, j \in DOMAIN result.placed :
          i # j => result.placed[i].position # result.placed[j].position

C21_Witness ==
    /\ result.fn = "placeAll"
    /\ Len(args.notes) = 3
    /\ \A i \in DOMAIN args.notes : unplaced(args.notes[i])
    /\ Len(args.notes) < maxCols(layoutConfig)
           * (layoutConfig.canvasHeight
               \div (layoutConfig.noteHeight + layoutConfig.padding))
    /\ result.placed[3].position.y > result.placed[1].position.y

(* C22: in placeAll the raw starting cell of the i-th note that lacks a
   position, i counting from 0 only the notes without a non-origin input
   position, is column i mod columns and row i div columns; pre-positioned
   notes do not consume grid cells. *)
C22_RawCellByRank ==
    result.fn = "placeAll" =>
        \A k \in DOMAIN args.notes :
            unplaced(args.notes[k]) =>
                LET i == Cardinality({j \in 1..(k - 1) : unplaced(args.notes[j])})
                IN  /\ result.placed[k].col = i % maxCols(layoutConfig)
                    /\ result.placed[k].row = i \div maxCols(layoutConfig)

(* C23: in placeAll every note with a non-origin input position is returned
   at exactly that position and, when no search exhausts its 50 attempts, no
   newly placed note's rectangle overlaps the rectangle of a pre-positioned
   note, whatever the order of the notes in the list. *)
C23_PrePositionedReserved ==
    result.fn = "placeAll" =>
        /\ \A k \in DOMAIN args.notes :
              ~unplaced(args.notes[k]) =>
                  result.placed[k].position = args.notes[k].position
        /\ (\A k \in DOMAIN result.placed : result.placed[k].attempts < 50) =>
              \A k, j \in DOMAIN args.notes :
                  (unplaced(args.notes[k]) /\ ~unplaced(args.notes[j])) =>
                      ~rectsOverlap(
                          occupied(result.placed[k].position.x,
                                   result.placed[k].position.y, layoutConfig),
                          occupied(args.notes[j].position.x,
                                   args.notes[j].position.y, layoutConfig))

(* C24: placeNear starts at (default left offset, anchor top minus canvas
   top), returns that start unchanged when it collides with no existing
   note, and otherwise shifts at most 100 times; whenever it returns after
   fewer than 100 shifts the returned rectangle overlaps no existing note's
   rectangle. *)
C24_PlaceNear ==
    (/\ result.fn = "placeNear"
     /\ args.highlightRect.present
     /\ args.canvasRect.present)
    => LET start == [x |-> DEFAULT_CONFIG.startX,
                     y |-> args.highlightRect.top - args.canvasRect.top]
           rectAt(p) == [x |-> p.x, y |-> p.y,
                         width |-> DEFAULT_CONFIG.noteWidth,
                         height |-> DEFAULT_CONFIG.noteHeight]
           free(p) == \A i \in DOMAIN args.notes :
                         ~rectsOverlap(rectAt(p), rectAt(args.notes[i].position))
       IN  /\ free(start) => /\ result.found.x = start.x
                             /\ result.found.y = start.y
                             /\ result.found.attempts = 0
           /\ ~free(start) => result.found.attempts > 0
           /\ result.found.attempts <= 100
           /\ result.found.attempts < 100 => free(result.found)

C24_Witness ==
    /\ result.fn = "placeNear"
    /\ args.highlightRect.present
    /\ args.canvasRect.present
    /\ result.found.attempts >= 2
    /\ result.found.x > DEFAULT_CONFIG.startX

(* C25: the collision test reports overlap iff the two rectangles' open
   projections overlap on both axes; it is symmetric in its two rectangles,
   and two rectangles that only share an edge or a corner do not collide. *)
C25_CollisionTest ==
    result.fn = "hasCollision" =>
        /\ result.value = rectsOverlap(args.a, args.b)
        /\ result.value = result.exchanged
        /\ (\/ args.a.x + args.a.width = args.b.x
            \/ args.b.x + args.b.width = args.a.x
            \/ args.a.y + args.a.height = args.b.y
            \/ args.b.y + args.b.height = args.a.y) => ~result.value

C25_Witness ==
    /\ result.fn = "hasCollision"
    /\ args.a.x + args.a.width = args.b.x
    /\ args.a.y + args.a.height = args.b.y
    /\ ~result.value

(***************************************************************************)
(* Properties of the connector geometry.  The origin of a getIntersection  *)
(* call is given in half units, so the offsets to the center are the       *)
(* integers below, in half units too.                                      *)
(***************************************************************************)
offsetX == (2 * args.rect.x + args.rect.width) - args.startX.n

offsetY == (2 * args.rect.y + args.rect.height) - args.startY.n

(* the number a equals the integer k, or the fraction k / 2 *)
isInteger(a, k) == a.d # 0 /\ a.n = k * a.d

isHalves(a, k) == a.d # 0 /\ 2 * a.n = k * a.d

between(a, lo, hi) == a.d # 0 /\ lo * a.d <= a.n /\ a.n <= hi * a.d

onTop(p, r) == isInteger(p.y, r.y) /\ between(p.x, r.x, r.x + r.width)

onBottom(p, r) == isInteger(p.y, r.y + r.height) /\ between(p.x, r.x, r.x + r.width)

onLeft(p, r) == isInteger(p.x, r.x) /\ between(p.y, r.y, r.y + r.height)

onRight(p, r) == isInteger(p.x, r.x + r.width) /\ between(p.y, r.y, r.y + r.height)

(* the vertical ratio |dy / height| is the larger one *)
verticalDominates == abs(offsetY) * args.rect.width > abs(offsetX) * args.rect.height

(* C26: intersect(origin, rect) returns rect's center when origin equals
   rect's center, with no division by zero. *)
C26_DegenerateCenter ==
    (result.fn = "getIntersection" /\ offsetX = 0 /\ offsetY = 0)
    => /\ isHalves(result.point.x, 2 * args.rect.x + args.rect.width)
       /\ isHalves(result.point.y, 2 * args.rect.y + args.rect.height)

C26_Witness ==
    /\ result.fn = "getIntersection"
    /\ offsetX = 0
    /\ offsetY = 0
    /\ args.rect.width = 1
    /\ isHalves(result.point.x, 2 * args.rect.x + 1)

(* C27: for every rectangle with positive width and height and every origin
   different from its center, inside or outside the rectangle, aligned with
   the center or not, intersect returns a point on the rectangle's border,
   on the edge facing the origin: the top edge when the origin is above the
   center and the vertical ratio dominates, and so on. *)
C27_OnFacingEdge ==
    (result.fn = "getIntersection" /\ (offsetX # 0 \/ offsetY # 0))
    => /\ (verticalDominates /\ offsetY > 0) => onTop(result.point, args.rect)
       /\ (verticalDominates /\ offsetY < 0) => onBottom(result.point, args.rect)
       /\ (~verticalDominates /\ offsetX > 0) => onLeft(result.point, args.rect)
       /\ (~verticalDominates /\ offsetX < 0) => onRight(result.point, args.rect)
       /\ \/ onTop(result.point, args.rect)
          \/ onBottom(result.point, args.rect)
          \/ onLeft(result.point, args.rect)
          \/ onRight(result.point, args.rect)

(* an origin strictly inside the rectangle, straight above its center *)
C27_Witness ==
    /\ result.fn = "getIntersection"
    /\ offsetX = 0
    /\ offsetY > 0
    /\ args.startY.n > 2 * args.rect.y
    /\ onTop(result.point, args.rect)
    /\ isHalves(result.point.x, args.startX.n)

(***************************************************************************)
(* Properties of the connector colors.                                     *)
(***************************************************************************)
(* the anchor hId supplies a stored color: one of its elements carries a
   background color or a data-highlight-color *)
suppliesColor(hId) ==
    \E i \in DOMAIN args.dom.marks :
        /\ includes(args.dom.marks[i].ids, hId)
        /\ (args.dom.marks[i].style # "none" \/ args.dom.marks[i].dataColor # "none")

storedColor(hId) ==
    findHighlight(args.dom.marks, hId, 1, [el |-> 0, color |-> FallbackColor]).color

directlyColored(note) ==
    \E j \in DOMAIN note.textReferences : suppliesColor(note.textReferences[j])

firstSupplier(note) ==
    CHOOSE j \in DOMAIN note.textReferences :
        /\ suppliesColor(note.textReferences[j])
        /\ \A k \in 1..(j - 1) : ~suppliesColor(note.textReferences[k])

(* C28: in connector computation a note's display color is the stored color
   of the first of its anchors, in textReferences order, that supplies a
   stored color; an anchor processed earlier that supplies no stored color
   does not fix the note's color. *)
C28_FirstStoredColor ==
    (result.fn = "calculateLines" /\ result.ran)
    => \A i \in DOMAIN args.notes :
          LET note == args.notes[i] IN
          directlyColored(note) =>
              /\ note.id \in DOMAIN result.noteColors
              /\ result.noteColors[note.id]
                     = storedColor(note.textReferences[firstSupplier(note)])

(* the colors the anchors give directly, as C28 states them *)
directColors ==
    LET colored == {i \in DOMAIN args.notes : directlyColored(args.notes[i])}
    IN  [id \in {args.notes[i].id : i \in colored} |->
            LET i == CHOOSE i \in colored : args.notes[i].id = id
            IN  storedColor(args.notes[i].textReferences[firstSupplier(args.notes[i])])]

(* one pass over the connections in list order in which a note without a
   color takes the color of the note at the other end, whichever end *)
RECURSIVE neighbourPass(_, _)
neighbourPass(k, colors) ==
    IF k > Len(args.connections) THEN colors
    ELSE LET a == args.connections[k].fromNoteId
             b == args.connections[k].toNoteId
         IN  IF findNote(args.notes, a) = 0 \/ findNote(args.notes, b) = 0
             THEN neighbourPass(k + 1, colors)
             ELSE IF a \in DOMAIN colors /\ b \notin DOMAIN colors
             THEN neighbourPass(k + 1, (b :> colors[a]) @@ colors)
             ELSE IF b \in DOMAIN colors /\ a \notin DOMAIN colors
             THEN neighbourPass(k + 1, (a :> colors[b]) @@ colors)
             ELSE neighbourPass(k + 1, colors)

(* C29: a note with no directly colored anchor takes the color of the first
   already-colored neighbour met while connections are processed once in
   list order, the neighbour being the note at the other end of the
   connection whichever end it is; a note whose colored neighbour is
   reached only by a later connection gets no color in that pass. *)
C29_InheritFromNeighbour ==
    (result.fn = "calculateLines" /\ result.ran)
    => LET claimed == neighbourPass(1, directColors) IN
       \A i \in DOMAIN args.notes :
          LET id == args.notes[i].id IN
          ~directlyColored(args.notes[i]) =>
              IF id \in DOMAIN claimed
              THEN id \in DOMAIN result.noteColors /\ result.noteColors[id] = claimed[id]
              ELSE id \notin DOMAIN result.noteColors

(***************************************************************************)
(* Properties of the connector segments.                                   *)
(***************************************************************************)
(* no element of the document carries the highlight id *)
anchorMissing(hId) ==
    \A i \in DOMAIN args.dom.marks : ~includes(args.dom.marks[i].ids, hId)

(* the height of the note's element, 100 without one, before the zoom *)
rawHeight(note) ==
    IF args.dom.noteEls[note.id].present THEN args.dom.noteEls[note.id].height ELSE 100

linesWithId(id) == {k \in DOMAIN result.lines : result.lines[k].id = id}

(* C31: for every (note, highlight id) pair in textReferences whose anchor
   rectangle is unavailable, connector computation does not fail and emits
   exactly one horizontal segment (y1 = y2 = note.y + noteHeight / 2) from
   x = 0 to x = note.position.x. *)
C31_FallbackSegment ==
    (result.fn = "calculateLines" /\ result.ran)
    => \A i \in DOMAIN args.notes :
          LET note == args.notes[i] IN
          \A j \in DOMAIN note.textReferences :
             LET hId == note.textReferences[j] IN
             anchorMissing(hId) =>
                /\ linesWithId(<<"text", note.id, hId>>) = {}
                /\ Cardinality(linesWithId(<<"text-fallback", note.id, hId>>)) = 1
                /\ \A k \in linesWithId(<<"text-fallback", note.id, hId>>) :
                      LET line == result.lines[k] IN
                      /\ isInteger(line.x1, 0)
                      /\ isInteger(line.x2, note.position.x)
                      /\ same(line.y1, line.y2)
                      /\ line.y1.d # 0
                      /\ 2 * args.dom.zoomLevel * line.y1.n
                            = (2 * args.dom.zoomLevel * note.position.y + rawHeight(note))
                              * line.y1.d

C31_Witness ==
    /\ result.fn = "calculateLines"
    /\ result.ran
    /\ args.dom.zoomLevel = 2
    /\ Len(args.notes[1].textReferences) = 2
    /\ anchorMissing(args.notes[1].textReferences[2])
    /\ ~anchorMissing(args.notes[1].textReferences[1])
    /\ Len(result.lines) >= 2
    /\ result.lines[2].id = <<"text-fallback", "n1", args.notes[1].textReferences[2]>>

(***************************************************************************)
(* Further properties of the store.                                        *)
(***************************************************************************)
(* C32: updateNotePosition(id, pos) changes only the position of the named
   note: its content, type, collapsed flag, width, textReferences and
   linkedNotes, every other note, all highlights, all connections and the
   document content are unchanged. *)
C32_PositionFrame ==
    [][ last'.type = "UPDATE_NOTE_POSITION" =>
          /\ DOMAIN project'.notes = DOMAIN project.notes
          /\ \A i \in DOMAIN project.notes :
                IF project.notes[i].id = last'.payload.id
                THEN /\ project'.notes[i].position = last'.payload.position
                     /\ DOMAIN project'.notes[i] = DOMAIN project.notes[i]
                     /\ \A k \in DOMAIN project.notes[i] \ {"position"} :
                           project'.notes[i][k] = project.notes[i][k]
                ELSE project'.notes[i] = project.notes[i]
          /\ project'.poem = project.poem
          /\ project'.connections = project.connections
          /\ project'.title = project.title
      ]_vars

C32_Witness ==
    /\ last.type = "UPDATE_NOTE_POSITION"
    /\ last.payload.id = "n1"
    /\ \E i, j \in DOMAIN project.notes :
          /\ project.notes[i].id = "n1"
          /\ project.notes[i].position = [x |-> 0, y |-> 0]
          /\ project.notes[i].textReferences = <<"h1">>
          /\ project.notes[i].linkedNotes = <<"n2">>
          /\ project.notes[j].id = "n2"
          /\ project.notes[j].position = [x |-> 20, y |-> 50]
    /\ Len(project.connections) > 0
    /\ Len(project.poem.highlights) > 0

(***************************************************************************)
(* Properties of the handlers of the canvas and of the editor.             *)
(***************************************************************************)
hasHighlightFor(state, hId, noteId) ==
    \E i \in DOMAIN state.poem.highlights :
        /\ state.poem.highlights[i].id = hId
        /\ includes(state.poem.highlights[i].noteIds, noteId)

hasReferenceTo(state, noteId, hId) ==
    \E i \in DOMAIN state.notes :
        /\ state.notes[i].id = noteId
        /\ includes(state.notes[i].textReferences, hId)

(* C33: after a text selection is committed to the existing note n that
   linking started from, the new highlight is in the store with n in its
   noteIds and n's textReferences holds the new highlight's id. *)
C33_LinkSelectionBothSides ==
    (last.type = "handleLinkToNote" /\ last.highlightId # Null) =>
        /\ hasHighlightFor(project, last.highlightId, last.noteId)
        /\ hasReferenceTo(project, last.noteId, last.highlightId)

linksTo(state, fromId, toId) ==
    \E i \in DOMAIN state.notes :
        state.notes[i].id = fromId /\ includes(state.notes[i].linkedNotes, toId)

(* C34: whatever the order of start-link, delete-note and note-click, a
   connection the click adds has both its endpoints among the notes of the
   store at that moment, and the source note lists the target in its
   linkedNotes. *)
C34_ClickLinkEndpointsLive ==
    (last.type = "handleNoteClick" /\ last.connectionId # Null) =>
        /\ last.fromId \in noteIds(project)
        /\ last.noteId \in noteIds(project)
        /\ linksTo(project, last.fromId, last.noteId)

(* a mark of the editor carries an id the store does not hold *)
staleMarker == markIds(editor) \ highlightIds(project) # {}

(* the marks carry exactly the ids of the store's highlights, and the
   store's content is the editor's document *)
markersAgree ==
    /\ markIds(editor) = highlightIds(project)
    /\ project.poem.content = getHTML(editor)
    /\ markerIds(project.poem.content) = markIds(editor)

(* C35: whenever a mark of the editor carries an id that is not in the
   store's highlights, the cleanup eventually takes the id out of the mark
   (stripping a mark left without ids), the changed document is dispatched
   as the new content, and marks and store highlights agree. *)
C35_CleanupEventually == staleMarker ~> markersAgree

(* the cleanup has just stripped one mark and shortened another *)
C35_Witness ==
    /\ last.type = "cleanup"
    /\ last.changed
    /\ markersAgree
    /\ \E i \in DOMAIN editor : editor[i].mark /\ editor[i].ids = <<"h2">>
    /\ highlightIds(project) = {"h2"}

(* a note the transition removed and a note it kept are tied by a link or
   by a connection *)
tied(before, removed, kept) ==
    \/ includes(removed.linkedNotes, kept.id)
    \/ includes(kept.linkedNotes, removed.id)
    \/ \E i \in DOMAIN before.connections :
          \/ /\ before.connections[i].fromNoteId = removed.id
             /\ before.connections[i].toNoteId = kept.id
          \/ /\ before.connections[i].fromNoteId = kept.id
             /\ before.connections[i].toNoteId = removed.id

(* C38: reconciliation is idempotent: setDocumentContent(c) applied to its
   own result leaves highlights, notes and connections as they are; and in
   one pass no removed note is tied by linkedNotes or by a connection to a
   note that survives. *)
C38_ReconcileIdempotent ==
    [][ (last'.type = "UPDATE_POEM_CONTENT" /\ thrown' = "none") =>
          /\ \A now \in project'.lastModified..MaxTime :
                LET again == projectReducer(project', last', now) IN
                /\ again.poem.highlights = project'.poem.highlights
                /\ again.notes = project'.notes
                /\ again.connections = project'.connections
          /\ \A i \in DOMAIN project.notes :
                project.notes[i].id \notin noteIds(project') =>
                   \A k \in DOMAIN project'.notes :
                      ~tied(project, project.notes[i], project'.notes[k])
      ]_vars

(* a pass over a content that anchors h2 alone: h2 is the only highlight
   kept and n2, which refers to it, the only user note *)
C38_Witness ==
    /\ last.type = "UPDATE_POEM_CONTENT"
    /\ last.payload = getHTML(<<mark(<<"h2">>)>>)
    /\ thrown = "none"
    /\ highlightIds(project) = {"h2"}
    /\ \E i \in DOMAIN project.notes :
          project.notes[i].id = "n2" /\ project.notes[i].textReferences = <<"h2">>
    /\ "n1" \notin noteIds(project)

(* C37: in every reachable state every id in every note's textReferences
   names a highlight of the store, so the connectors never draw a segment
   for a highlight that was dropped. *)
C37_TextReferencesLive ==
    \A i \in DOMAIN project.notes :
        \A k \in DOMAIN project.notes[i].textReferences :
            project.notes[i].textReferences[k] \in highlightIds(project)

(* a note of the state with the given id that is not a special note: its
   type is absent or default *)
isOrdinaryNote(state, id) ==
    \E i \in DOMAIN state.notes :
        state.notes[i].id = id /\ typeOf(state.notes[i]) \notin SpecialTypes

(* C39: deleteNote(id) removes every existing note whose type is neither
   context nor personal-response (absent or default), and such a note is
   pruned by reconciliation when nothing ties it. *)
C39_OrdinaryNotesDeletable ==
    [][ /\ (last'.type = "DELETE_NOTE" /\ thrown' = "none"
              /\ isOrdinaryNote(project, last'.payload))
           => last'.payload \notin noteIds(project')
        /\ (last'.type = "UPDATE_POEM_CONTENT" /\ thrown' = "none") =>
              \A i \in DOMAIN project.notes :
                 LET n == project.notes[i] IN
                 (/\ typeOf(n) \notin SpecialTypes
                  /\ ~hasHighlights(n, project'.poem.highlights)
                  /\ ~hasConnections(n, project)
                  /\ ~hasLinkedNotes(n, project))
                 => n.id \notin noteIds(project')
      ]_vars

(***************************************************************************)
(* Further properties of persistence.                                      *)
(***************************************************************************)

(* C36: after importProject has resolved, the snapshot in local storage is
   the imported project, the state the store now holds, and not the project
   the store held before the import. *)
C36_StorageHoldsImport ==
    (last.type = "importProject" /\ thrown = "none") =>
        storage = <<JSONstringify(project)>>

(* the state holds a note of the given type that deleteNote leaves in place *)
holdsProtected(state, ty) ==
    \E i \in DOMAIN state.notes :
        /\ typeOf(state.notes[i]) = ty
        /\ findIsTyped(state.notes, state.notes[i].id)
        /\ \A now \in 0..MaxTime :
              projectReducer(state, [type |-> "DELETE_NOTE",
                                     payload |-> state.notes[i].id], now) = state

(* C40: after an accepted import, and after the initial load from local
   storage, the store holds a note of type context and a note of type
   personal-response that deleteNote refuses to delete, whatever notes the
   payload carried, a note reusing a special id without the type included. *)
C40_SpecialNotesAfterLoad ==
    ((last.type = "importProject" /\ thrown = "none") \/ last.type = "initialLoad") =>
        /\ holdsProtected(project, "context")
        /\ holdsProtected(project, "personal-response")

====
